---- MODULE Spec2Model ----
(***************************************************************************)
(* Turn orchestration of the multi-persona chat backend.                   *)
(*                                                                         *)
(* The chat table (partition "chat", sort key datetime) holds the metadata *)
(* item at datetime 0 and one item per message.  The orchestrator handler  *)
(* (orchestrator.js) is modelled one action per await point, so that       *)
(* overlapping invocations interleave exactly where the code can be        *)
(* suspended.  The chat-send path writes user messages with                *)
(* storeChatMessage (services/dynamoDbService.js).                         *)
(***************************************************************************)
EXTENDS Integers, Sequences, FiniteSets, TLC

\* Largest value of the millisecond clock (Date.now()) the model explores.
MaxTime == 3

\* Chat-send requests the rate limiter admits within the explored window.
MaxChatSends == 1

\* The orchestrator invocations that may overlap (scheduled tick + retry).
Invocations == {"tick1", "tick2"}

\* A key with no item / a read that returned nothing (null, undefined).
NoItem == [id |-> "absent"]

\* A read of Promise.all that has not resolved yet.
Unread == [id |-> "unread"]

\* The personas written by the initialization script (one mood of each).
llmParticipants ==
  << [name |-> "gemini", provider |-> "google",
      personality |-> [moods |-> << "I'm feeling analytical today! " >>,
                       phrase |-> "Hey Gemini, what's your take on "]],
     [name |-> "claude", provider |-> "anthropic",
      personality |-> [moods |-> << "This is quite interesting! " >>,
                       phrase |-> "Claude, I'd love your thoughtful perspective on "]],
     [name |-> "openai", provider |-> "openai",
      personality |-> [moods |-> << "Great question! " >>,
                       phrase |-> "OpenAI, can you help me understand "]] >>

\* validateChatMessage: the closed set of senders.
validSenders == {"user", "gemini", "claude", "openai"}

\* validateParticipant: the closed set of providers.
validProviders == {"google", "anthropic", "openai"}

\* The sort keys of message items.
Keys == 1..MaxTime

VARIABLES
  msgs,            \* the message items of the table, by datetime key
  meta,            \* the metadata item (datetime 0), or NoItem
  now,             \* the millisecond clock
  pc,              \* each invocation's position in the handler
  metadata,        \* handler local: metadata as read
  latestMessage,   \* handler local: latest item as read
  newMessage,      \* handler local: the message built for RESPOND
  newSpeakerIndex, \* handler local: the index computed for RESPOND
  result,          \* what the invocation returned
  effects,         \* history: the store writes the current invocation made
  chatSends,       \* history: the chat-send requests that stored a message
  lastSpeaker,     \* history: position of the persona of the last committed AI message
  chat             \* chat-send handler locals, per request

vars == << msgs, meta, now, pc, metadata, latestMessage, newMessage,
           newSpeakerIndex, result, effects, chatSends, lastSpeaker, chat >>

store == << msgs, meta >>

locals == << metadata, latestMessage, newMessage, newSpeakerIndex >>

----------------------------------------------------------------------------
(* JavaScript values *)

\* A value is tagged with its typeof; a plain object is a record of values
\* and an absent property reads as undefined.
Undefined == [typeof |-> "undefined"]

Null == [typeof |-> "object", null |-> TRUE]

NaN == [typeof |-> "number", nan |-> TRUE]

Num(n) == [typeof |-> "number", num |-> n]

Str(s) == [typeof |-> "string", str |-> s]

Bool(b) == [typeof |-> "boolean", bool |-> b]

Arr(elements) == [typeof |-> "object", array |-> elements]

\* What a call that throws gives instead of a value.
Thrown == [thrown |-> TRUE]

\* typeof x.
typeof(x) == IF "typeof" \in DOMAIN x THEN x.typeof ELSE "object"

\* Array.isArray(x).
IsArray(x) == "array" \in DOMAIN x

\* x.property (undefined when x has no such property).
Get(x, property) ==
  IF "typeof" \notin DOMAIN x /\ property \in DOMAIN x THEN x[property] ELSE Undefined

\* The condition `x` of an if: false for undefined, null, NaN, 0, '' and false.
Truthy(x) ==
  CASE x = Undefined -> FALSE
    [] x = Null -> FALSE
    [] x = NaN -> FALSE
    [] typeof(x) = "number" /\ x # NaN -> x.num # 0
    [] typeof(x) = "string" -> x.str # ""
    [] typeof(x) = "boolean" -> x.bool
    [] OTHER -> TRUE

\* x < n, x <= n and x >= n for a value of typeof 'number' (all false for
\* NaN).
NumLess(x, n) == x # NaN /\ x.num < n

NumAtMost(x, n) == x # NaN /\ x.num <= n

NumAtLeast(x, n) == x # NaN /\ x.num >= n

\* The integers whose decimal form the conversions know.
MaxNumber == 5

Numbers == -1..MaxNumber

\* String(x) of a number.
String(x) == IF x = NaN THEN Str("NaN") ELSE Str(ToString(x.num))

\* Number(x): a number is itself, a decimal string parses to its number,
\* '' to 0, any other string to NaN.
Number(x) ==
  CASE typeof(x) = "number" -> x
    [] typeof(x) = "string" ->
         IF \E n \in Numbers : ToString(n) = x.str
         THEN Num(CHOOSE n \in Numbers : ToString(n) = x.str)
         ELSE IF x.str = "" THEN Num(0) ELSE NaN
    [] typeof(x) = "boolean" -> Num(IF x.bool THEN 1 ELSE 0)
    [] x = Null -> Num(0)
    [] OTHER -> NaN

----------------------------------------------------------------------------
(* Data model *)

\* validateParticipant: TRUE when it does not throw.
validateParticipant(participant) ==
  /\ Truthy(participant)
  /\ typeof(participant) = "object"
  /\ Get(participant, "provider") \in {Str(p) : p \in validProviders}
  /\ typeof(Get(participant, "name")) = "string"
  /\ Get(participant, "name") # Str("")
  /\ Truthy(Get(participant, "personality"))
  /\ typeof(Get(participant, "personality")) = "object"
  /\ IsArray(Get(Get(participant, "personality"), "moods"))
  /\ Len(Get(Get(participant, "personality"), "moods").array) # 0
  /\ typeof(Get(Get(participant, "personality"), "phrase")) = "string"
  /\ Get(Get(participant, "personality"), "phrase") # Str("")

\* A validateChatMetadata that accepts an index past the end of the list.
validateChatMetadataWithoutUpperBound(md) ==
  /\ Truthy(md)
  /\ typeof(md) = "object"
  /\ Get(md, "id") = Str("chat")
  /\ Get(md, "datetime") = Num(0)
  /\ IsArray(Get(md, "llmParticipants"))
  /\ Len(Get(md, "llmParticipants").array) # 0
  /\ \A k \in 1..Len(Get(md, "llmParticipants").array) :
       validateParticipant(Get(md, "llmParticipants").array[k])
  /\ typeof(Get(md, "nextSpeakerIndex")) = "number"
  /\ ~NumLess(Get(md, "nextSpeakerIndex"), 0)

\* validateChatMetadata: TRUE when it does not throw.
validateChatMetadata(md) ==
  /\ Truthy(md)
  /\ typeof(md) = "object"
  /\ Get(md, "id") = Str("chat")
  /\ Get(md, "datetime") = Num(0)
  /\ IsArray(Get(md, "llmParticipants"))
  /\ Len(Get(md, "llmParticipants").array) # 0
  /\ \A k \in 1..Len(Get(md, "llmParticipants").array) :
       validateParticipant(Get(md, "llmParticipants").array[k])
  /\ typeof(Get(md, "nextSpeakerIndex")) = "number"
  /\ ~NumLess(Get(md, "nextSpeakerIndex"), 0)
  /\ ~NumAtLeast(Get(md, "nextSpeakerIndex"),
                 Len(Get(md, "llmParticipants").array))

\* serializeParticipant: validates, then builds the attribute value.
serializeParticipant(participant) ==
  IF ~validateParticipant(participant)
  THEN Thrown
  ELSE [M |->
         [name |-> [S |-> participant.name],
          provider |-> [S |-> participant.provider],
          personality |->
            [M |-> [moods |-> [L |-> Arr([k \in 1..Len(participant.personality.moods.array) |->
                                           [S |-> participant.personality.moods.array[k]]])],
                    phrase |-> [S |-> participant.personality.phrase]]]]]

\* deserializeParticipant: checks that the attributes are there and builds
\* the participant; it does not validate it.
deserializeParticipant(item) ==
  LET m == Get(item, "M")
      personality == Get(Get(m, "personality"), "M")
      moods == Get(Get(personality, "moods"), "L")
  IN  IF \/ ~Truthy(item) \/ ~Truthy(m)
         \/ ~Truthy(Get(m, "name")) \/ ~Truthy(Get(Get(m, "name"), "S"))
         \/ ~Truthy(Get(m, "provider")) \/ ~Truthy(Get(Get(m, "provider"), "S"))
         \/ ~Truthy(Get(m, "personality")) \/ ~Truthy(personality)
         \/ ~Truthy(Get(personality, "moods")) \/ ~Truthy(moods)
         \/ ~Truthy(Get(personality, "phrase"))
         \/ ~Truthy(Get(Get(personality, "phrase"), "S"))
         \/ ~IsArray(moods)
         \/ \E k \in 1..Len(moods.array) : moods.array[k] \in {Undefined, Null}
      THEN Thrown
      ELSE [name |-> m.name.S,
            provider |-> m.provider.S,
            personality |->
              [moods |-> Arr([k \in 1..Len(moods.array) |-> Get(moods.array[k], "S")]),
               phrase |-> personality.phrase.S]]

\* serializeChatMetadata: validates, then builds the item.
serializeChatMetadata(md) ==
  IF ~validateChatMetadata(md)
  THEN Thrown
  ELSE [id |-> [S |-> md.id],
        datetime |-> [N |-> String(md.datetime)],
        llmParticipants |->
          [L |-> Arr([k \in 1..Len(md.llmParticipants.array) |->
                       serializeParticipant(md.llmParticipants.array[k])])],
        nextSpeakerIndex |-> [N |-> String(md.nextSpeakerIndex)]]

\* A deserializeChatMetadata that starts the rotation over.
deserializeChatMetadataResetsIndex(item) ==
  LET participants == Get(Get(item, "llmParticipants"), "L")
  IN  IF \/ ~Truthy(item) \/ typeof(item) # "object"
         \/ ~Truthy(Get(item, "id")) \/ ~Truthy(Get(Get(item, "id"), "S"))
         \/ ~Truthy(Get(item, "datetime")) \/ ~Truthy(Get(Get(item, "datetime"), "N"))
         \/ ~Truthy(Get(item, "llmParticipants")) \/ ~Truthy(participants)
         \/ ~Truthy(Get(item, "nextSpeakerIndex"))
         \/ ~Truthy(Get(Get(item, "nextSpeakerIndex"), "N"))
         \/ ~IsArray(participants)
         \/ \E k \in 1..Len(participants.array) :
              deserializeParticipant(participants.array[k]) = Thrown
      THEN Thrown
      ELSE LET md ==
                 [id |-> item.id.S,
                  datetime |-> Number(item.datetime.N),
                  llmParticipants |->
                    Arr([k \in 1..Len(participants.array) |->
                          deserializeParticipant(participants.array[k])]),
                  nextSpeakerIndex |-> Num(0)]
           IN  IF validateChatMetadata(md) THEN md ELSE Thrown

\* deserializeChatMetadata: checks that the attributes are there, builds the
\* metadata and validates it.
deserializeChatMetadata(item) ==
  LET participants == Get(Get(item, "llmParticipants"), "L")
  IN  IF \/ ~Truthy(item) \/ typeof(item) # "object"
         \/ ~Truthy(Get(item, "id")) \/ ~Truthy(Get(Get(item, "id"), "S"))
         \/ ~Truthy(Get(item, "datetime")) \/ ~Truthy(Get(Get(item, "datetime"), "N"))
         \/ ~Truthy(Get(item, "llmParticipants")) \/ ~Truthy(participants)
         \/ ~Truthy(Get(item, "nextSpeakerIndex"))
         \/ ~Truthy(Get(Get(item, "nextSpeakerIndex"), "N"))
         \/ ~IsArray(participants)
         \/ \E k \in 1..Len(participants.array) :
              deserializeParticipant(participants.array[k]) = Thrown
      THEN Thrown
      ELSE LET md ==
                 [id |-> item.id.S,
                  datetime |-> Number(item.datetime.N),
                  llmParticipants |->
                    Arr([k \in 1..Len(participants.array) |->
                          deserializeParticipant(participants.array[k])]),
                  nextSpeakerIndex |-> Number(item.nextSpeakerIndex.N)]
           IN  IF validateChatMetadata(md) THEN md ELSE Thrown

\* createChatMetadata: index 0, datetime 0, validated before it is returned.
createChatMetadata(participants) ==
  LET md == [id |-> Str("chat"), datetime |-> Num(0),
                   llmParticipants |-> participants, nextSpeakerIndex |-> Num(0)]
  IN  IF validateChatMetadata(md) THEN md ELSE Thrown

\* validateChatMessage: TRUE when it does not throw.
validateChatMessage(message) ==
  /\ Truthy(message)
  /\ typeof(message) = "object"
  /\ Get(message, "id") = Str("chat")
  /\ typeof(Get(message, "datetime")) = "number"
  /\ ~NumAtMost(Get(message, "datetime"), 0)
  /\ Get(message, "sender") \in {Str(s) : s \in validSenders}
  /\ typeof(Get(message, "message")) = "string"
  /\ Get(message, "message") # Str("")
  /\ typeof(Get(message, "isProcessed")) = "boolean"
  /\ \/ Get(message, "email") = Undefined
     \/ typeof(Get(message, "email")) = "string"

\* A serializeChatMessage that does not look at the sender.
serializeChatMessageAnySender(message) ==
  IF \/ ~Truthy(message) \/ typeof(message) # "object"
     \/ ~validateChatMessage([f \in DOMAIN message |->
                                IF f = "sender" THEN Str("user") ELSE message[f]])
  THEN Thrown
  ELSE [id |-> [S |-> message.id],
        datetime |-> [N |-> String(message.datetime)],
        sender |-> [S |-> message.sender],
        message |-> [S |-> message.message],
        isProcessed |-> [BOOL |-> message.isProcessed],
        email |-> IF message.email # Undefined THEN [S |-> message.email] ELSE Undefined]

\* serializeChatMessage: validates, then builds the item; email only when
\* it is defined.
serializeChatMessage(message) ==
  IF ~validateChatMessage(message)
  THEN Thrown
  ELSE [id |-> [S |-> message.id],
        datetime |-> [N |-> String(message.datetime)],
        sender |-> [S |-> message.sender],
        message |-> [S |-> message.message],
        isProcessed |-> [BOOL |-> message.isProcessed],
        email |-> IF message.email # Undefined THEN [S |-> message.email] ELSE Undefined]

\* deserializeChatMessage: checks that the attributes are there and builds
\* the message, with email only when the attribute is truthy; it does not
\* validate the message.
deserializeChatMessage(item) ==
  IF \/ ~Truthy(item) \/ typeof(item) # "object"
     \/ ~Truthy(Get(item, "id")) \/ ~Truthy(Get(Get(item, "id"), "S"))
     \/ ~Truthy(Get(item, "datetime")) \/ ~Truthy(Get(Get(item, "datetime"), "N"))
     \/ ~Truthy(Get(item, "sender")) \/ ~Truthy(Get(Get(item, "sender"), "S"))
     \/ ~Truthy(Get(item, "message")) \/ ~Truthy(Get(Get(item, "message"), "S"))
     \/ Get(item, "isProcessed") \in {Undefined, Null}
     \/ Get(Get(item, "isProcessed"), "BOOL") = Undefined
  THEN Thrown
  ELSE [id |-> item.id.S,
        datetime |-> Number(item.datetime.N),
        sender |-> item.sender.S,
        message |-> item.message.S,
        isProcessed |-> item.isProcessed.BOOL,
        email |-> IF Truthy(Get(item, "email")) /\ Truthy(Get(Get(item, "email"), "S"))
                  THEN item.email.S
                  ELSE Undefined]

\* A createChatMessage that builds the message with isProcessed true.
createChatMessageProcessed(sender, messageContent, email, time) ==
  LET message == [id |-> Str("chat"), datetime |-> Num(time), sender |-> sender,
                  message |-> messageContent, isProcessed |-> Bool(TRUE),
                  email |-> email]
  IN  IF validateChatMessage(message) THEN message ELSE Thrown

\* A createChatMessage that returns the message without validating it.
createChatMessageUnvalidated(sender, messageContent, email, time) ==
  [id |-> Str("chat"), datetime |-> Num(time), sender |-> sender,
   message |-> messageContent, isProcessed |-> Bool(FALSE), email |-> email]

\* createChatMessage(sender, content, email) when Date.now() reads time:
\* id 'chat', isProcessed false, email as given, validated before it is
\* returned.
createChatMessage(sender, messageContent, email, time) ==
  LET message == [id |-> Str("chat"), datetime |-> Num(time), sender |-> sender,
                  message |-> messageContent, isProcessed |-> Bool(FALSE),
                  email |-> email]
  IN  IF validateChatMessage(message) THEN message ELSE Thrown

----------------------------------------------------------------------------
(* Items of the table as the handlers hold them *)

\* The object of a stored message item.
JsMessage(m) ==
  [id |-> Str(m.id), datetime |-> Num(m.datetime), sender |-> Str(m.sender),
   message |-> Str(m.message),
   isProcessed |-> IF "isProcessed" \in DOMAIN m THEN Bool(m.isProcessed) ELSE Undefined,
   email |-> IF "email" \in DOMAIN m THEN Str(m.email) ELSE Undefined]

\* The item of a valid message object.
RawMessage(message) ==
  LET item == [id |-> message.id.str, datetime |-> message.datetime.num,
               sender |-> message.sender.str, message |-> message.message.str,
               isProcessed |-> message.isProcessed.bool]
  IN  IF message.email = Undefined THEN item ELSE [email |-> message.email.str] @@ item

\* The object of a participant of the metadata item.
JsParticipant(p) ==
  [name |-> Str(p.name), provider |-> Str(p.provider),
   personality |->
     [moods |-> Arr([k \in 1..Len(p.personality.moods) |-> Str(p.personality.moods[k])]),
      phrase |-> Str(p.personality.phrase)]]

\* The participant of a valid participant object.
RawParticipant(participant) ==
  [name |-> participant.name.str, provider |-> participant.provider.str,
   personality |->
     [moods |-> [k \in 1..Len(participant.personality.moods.array) |->
                   participant.personality.moods.array[k].str],
      phrase |-> participant.personality.phrase.str]]

\* The array of participant objects of a participant list.
JsParticipants(participants) ==
  Arr([k \in 1..Len(participants) |-> JsParticipant(participants[k])])

\* The object of the metadata item (null when there is none).
JsMetadata(md) ==
  IF md = NoItem
  THEN Null
  ELSE [id |-> Str(md.id), datetime |-> Num(md.datetime),
        llmParticipants |-> JsParticipants(md.llmParticipants),
        nextSpeakerIndex |-> Num(md.nextSpeakerIndex)]

\* The metadata item of a valid metadata object.
RawMetadata(md) ==
  [id |-> md.id.str, datetime |-> md.datetime.num,
   llmParticipants |-> [k \in 1..Len(md.llmParticipants.array) |->
                          RawParticipant(md.llmParticipants.array[k])],
   nextSpeakerIndex |-> md.nextSpeakerIndex.num]

\* latestMessage.isProcessed === true (an item stored by storeChatMessage
\* has no isProcessed attribute).
IsProcessed(m) == "isProcessed" \in DOMAIN m /\ m.isProcessed = TRUE

----------------------------------------------------------------------------
(* Speaker selector *)

\* getNextSpeaker throws on this metadata.
getNextSpeakerThrows(md) ==
  \/ ~Truthy(md)
  \/ typeof(md) # "object"
  \/ ~IsArray(Get(md, "llmParticipants"))
  \/ Len(Get(md, "llmParticipants").array) = 0
  \/ typeof(Get(md, "nextSpeakerIndex")) # "number"
  \/ NumLess(Get(md, "nextSpeakerIndex"), 0)

\* A selector that always returns the first persona.
getNextSpeakerIgnoresIndex(md) ==
  IF getNextSpeakerThrows(md)
  THEN Thrown
  ELSE md.llmParticipants.array[1]

\* A selector that reads the list at the index without the modulo.
getNextSpeakerWithoutModulo(md) ==
  IF getNextSpeakerThrows(md)
  THEN Thrown
  ELSE IF \/ md.nextSpeakerIndex = NaN
          \/ md.nextSpeakerIndex.num >= Len(md.llmParticipants.array)
       THEN Undefined
       ELSE md.llmParticipants.array[md.nextSpeakerIndex.num + 1]

\* A selector that takes a negative index modulo the length.
getNextSpeakerAcceptsNegative(md) ==
  IF \/ ~Truthy(md)
     \/ typeof(md) # "object"
     \/ ~IsArray(Get(md, "llmParticipants"))
     \/ Len(Get(md, "llmParticipants").array) = 0
     \/ typeof(Get(md, "nextSpeakerIndex")) # "number"
  THEN Thrown
  ELSE IF md.nextSpeakerIndex = NaN
       THEN Undefined
       ELSE md.llmParticipants.array[
              (md.nextSpeakerIndex.num % Len(md.llmParticipants.array)) + 1]

\* getNextSpeaker: llmParticipants[nextSpeakerIndex % length] (an array read
\* at NaN is undefined).
getNextSpeaker(md) ==
  IF getNextSpeakerThrows(md)
  THEN Thrown
  ELSE IF md.nextSpeakerIndex = NaN
       THEN Undefined
       ELSE md.llmParticipants.array[
              (md.nextSpeakerIndex.num % Len(md.llmParticipants.array)) + 1]

\* incrementSpeakerIndex throws on these arguments.
incrementSpeakerIndexThrows(currentIndex, participantCount) ==
  \/ typeof(currentIndex) # "number"
  \/ NumLess(currentIndex, 0)
  \/ typeof(participantCount) # "number"
  \/ NumAtMost(participantCount, 0)

\* A selector that skips a persona.
IncrementSkips(currentIndex, participantCount) ==
  (currentIndex + 2) % participantCount

\* A selector that forgets to wrap around.
IncrementNoWrap(currentIndex, participantCount) ==
  currentIndex + 1

\* A selector that stays on the last persona instead of wrapping to 0.
IncrementSaturates(currentIndex, participantCount) ==
  IF currentIndex + 1 < participantCount THEN currentIndex + 1 ELSE currentIndex

\* incrementSpeakerIndex for integer arguments on which it does not throw:
\* (currentIndex + 1) % participantCount.
incrementSpeakerIndex(currentIndex, participantCount) ==
  (currentIndex + 1) % participantCount

----------------------------------------------------------------------------
(* Store interface *)

\* The largest message key in use (0 when there is no message).
MaxKey(m) ==
  IF \E k \in Keys : m[k] # NoItem
  THEN CHOOSE k \in Keys : m[k] # NoItem /\ \A j \in Keys : m[j] # NoItem => j <= k
  ELSE 0

\* get(key = 0): the metadata item or nothing.
getChatMetadata == meta

\* query(descending, limit 1): the item with the largest sort key, which is
\* the metadata item when no message was ever stored.
getLatestMessage ==
  IF MaxKey(msgs) > 0 THEN msgs[MaxKey(msgs)] ELSE meta

\* put(item): an unconditional put, which replaces an item with the same key.
PutItem(m, item) == [m EXCEPT ![item.datetime] = item]

\* update(key, isProcessed = true): a plain, unconditional update.
markMessageProcessed(m, datetime) ==
  [m EXCEPT ![datetime] = [isProcessed |-> TRUE] @@ m[datetime]]

\* update(key 0, nextSpeakerIndex).
updateSpeakerIndex(md, index) == [md EXCEPT !.nextSpeakerIndex = index]

\* transactWrite of (put message, update isProcessed, update index) is
\* refused when two of its operations address the same item.
batchWriteRefused(message, originalDatetime) ==
  message.datetime = originalDatetime

\* transactWrite: the message items after the three operations.
batchWriteMessages(m, message, originalDatetime) ==
  markMessageProcessed(PutItem(m, message), originalDatetime)

\* storeChatMessage: the item put by the chat-send path (no isProcessed).
chatItem(message, sender, email, time) ==
  [id |-> "chat", message |-> message, sender |-> sender,
   datetime |-> time, email |-> email]

----------------------------------------------------------------------------
(* Results of the orchestrator handler *)

NoResult == [statusCode |-> 0, action |-> "NONE"]

ExitResult(reason) == [statusCode |-> 200, action |-> "EXIT", reason |-> reason]

WaitResult(datetime) ==
  [statusCode |-> 200, action |-> "WAIT", messageProcessed |-> datetime]

RespondResult(speaker, message, originalDatetime, index) ==
  [statusCode |-> 200, action |-> "RESPOND", speaker |-> speaker.name,
   provider |-> speaker.provider, newMessageDatetime |-> message.datetime,
   originalMessageProcessed |-> originalDatetime, newSpeakerIndex |-> index]

ErrorResult == [statusCode |-> 500, action |-> "ERROR", error |-> "Orchestrator error"]

UnexpectedResult ==
  [statusCode |-> 500, action |-> "ERROR", error |-> "Unexpected orchestrator decision"]

NoEffects == [inserts |-> 0, marks |-> 0, indexWrites |-> 0]

----------------------------------------------------------------------------
(* Initial state *)

\* The metadata items the table may start with: none, or the initialization
\* script's item with the index anywhere in its round.
InitialMetadata ==
  {NoItem} \cup
  {[RawMetadata(createChatMetadata(JsParticipants(llmParticipants)))
      EXCEPT !.nextSpeakerIndex = x] :
     x \in 0..(Len(llmParticipants) - 1)}

Init ==
  /\ msgs = [k \in Keys |-> NoItem]
  /\ meta \in {md \in InitialMetadata : md = NoItem \/ validateChatMetadata(JsMetadata(md))}
  /\ now = 1
  /\ pc = [i \in Invocations |-> "idle"]
  /\ metadata = [i \in Invocations |-> Unread]
  /\ latestMessage = [i \in Invocations |-> Unread]
  /\ newMessage = [i \in Invocations |-> NoItem]
  /\ newSpeakerIndex = [i \in Invocations |-> 0]
  /\ result = [i \in Invocations |-> NoResult]
  /\ effects = [i \in Invocations |-> NoEffects]
  /\ chatSends = 0
  /\ lastSpeaker = 0
  /\ chat = << >>

----------------------------------------------------------------------------
(* Environment: the clock, the chat-send path, the initialization script *)

\* Date.now(): a reading is never before the previous one.
ClockReadings == now..MaxTime

\* storeChatMessage(userInput, userName, email): the chat-send path puts the
\* user's message under the current millisecond.
StoreChatMessage ==
  /\ chatSends < MaxChatSends
  /\ chatSends' = chatSends + 1
  /\ \E t \in ClockReadings :
       /\ now' = t
       /\ msgs' = PutItem(msgs, chatItem("hi", "alice", "alice@example.com", t))
  /\ UNCHANGED << meta, pc, locals, result, effects, lastSpeaker, chat >>

\* initializeChatSystem: creates the metadata item when there is none.
InitializeChatSystem ==
  /\ meta = NoItem
  /\ createChatMetadata(JsParticipants(llmParticipants)) # Thrown
  /\ meta' = RawMetadata(createChatMetadata(JsParticipants(llmParticipants)))
  /\ UNCHANGED << msgs, now, pc, locals, result, effects, chatSends, lastSpeaker, chat >>

----------------------------------------------------------------------------
(* The orchestrator handler, one action per await point *)

\* The handler returns r; its locals go out of scope.
Return(i, r) ==
  /\ pc' = [pc EXCEPT ![i] = "done"]
  /\ result' = [result EXCEPT ![i] = r]
  /\ metadata' = [metadata EXCEPT ![i] = Unread]
  /\ latestMessage' = [latestMessage EXCEPT ![i] = Unread]
  /\ newMessage' = [newMessage EXCEPT ![i] = NoItem]
  /\ newSpeakerIndex' = [newSpeakerIndex EXCEPT ![i] = 0]

\* The scheduler (or a retry) invokes the handler.
Invoke(i) ==
  /\ pc[i] \in {"idle", "done"}
  /\ pc' = [pc EXCEPT ![i] = "fetch"]
  /\ result' = [result EXCEPT ![i] = NoResult]
  /\ effects' = [effects EXCEPT ![i] = NoEffects]
  /\ UNCHANGED << msgs, meta, now, locals, chatSends, lastSpeaker, chat >>

\* Exit guards that look at the latest message before the metadata.
ExitGuardsMessagesFirst(md, lm) ==
  IF lm = NoItem THEN ExitResult("No messages exist")
  ELSE IF md = NoItem THEN ExitResult("Metadata not found")
  ELSE IF lm.datetime = 0 THEN ExitResult("No messages to process")
  ELSE IF IsProcessed(lm) THEN ExitResult("Message already processed")
  ELSE NoResult

\* Exit guards without the already-processed guard.
ExitGuardsWithoutProcessed(md, lm) ==
  IF md = NoItem THEN ExitResult("Metadata not found")
  ELSE IF lm = NoItem THEN ExitResult("No messages exist")
  ELSE IF lm.datetime = 0 THEN ExitResult("No messages to process")
  ELSE NoResult

\* The exit guards, in the order of the code; NoResult when none matches.
ExitGuards(md, lm) ==
  IF md = NoItem THEN ExitResult("Metadata not found")
  ELSE IF lm = NoItem THEN ExitResult("No messages exist")
  ELSE IF lm.datetime = 0 THEN ExitResult("No messages to process")
  ELSE IF IsProcessed(lm) THEN ExitResult("Message already processed")
  ELSE NoResult

\* Promise.all resolved with (md, lm): the guards, then the decision call.
Fetched(i, md, lm) ==
  IF ExitGuards(md, lm) # NoResult
  THEN Return(i, ExitGuards(md, lm))
  ELSE /\ pc' = [pc EXCEPT ![i] = "decide"]
       /\ metadata' = [metadata EXCEPT ![i] = md]
       /\ latestMessage' = [latestMessage EXCEPT ![i] = lm]
       /\ UNCHANGED << newMessage, newSpeakerIndex, result >>

\* getChatMetadata resolves or rejects.
FetchMetadata(i) ==
  /\ pc[i] = "fetch"
  /\ metadata[i] = Unread
  /\ \/ /\ latestMessage[i] = Unread
        /\ metadata' = [metadata EXCEPT ![i] = getChatMetadata]
        /\ UNCHANGED << pc, latestMessage, newMessage, newSpeakerIndex, result >>
     \/ /\ latestMessage[i] # Unread
        /\ Fetched(i, getChatMetadata, latestMessage[i])
     \/ Return(i, ErrorResult)
  /\ UNCHANGED << msgs, meta, now, effects, chatSends, lastSpeaker, chat >>

\* getLatestMessage resolves or rejects.
FetchLatestMessage(i) ==
  /\ pc[i] = "fetch"
  /\ latestMessage[i] = Unread
  /\ \/ /\ metadata[i] = Unread
        /\ latestMessage' = [latestMessage EXCEPT ![i] = getLatestMessage]
        /\ UNCHANGED << pc, metadata, newMessage, newSpeakerIndex, result >>
     \/ /\ metadata[i] # Unread
        /\ Fetched(i, metadata[i], getLatestMessage)
     \/ Return(i, ErrorResult)
  /\ UNCHANGED << msgs, meta, now, effects, chatSends, lastSpeaker, chat >>

(* Decision engine: the parser of the orchestrator LLM's response *)

\* The members an object of a response text can have, each one token of the
\* text: action with a word in upper or lower case or with another word, and
\* another key.
MemberTokens ==
  {"action:RESPOND", "action:wait", "action:MAYBE",
   "reason:x"}

\* The object of one member.
ObjectOf(member) ==
  CASE member = "action:RESPOND" -> [action |-> Str("RESPOND")]
    [] member = "action:wait" -> [action |-> Str("wait")]
    [] member = "action:MAYBE" -> [action |-> Str("MAYBE")]
    [] member = "reason:x" -> [reason |-> Str("x")]

\* String.prototype.toUpperCase on the words of the texts.
toUpperCase(s) ==
  CASE s = "wait" -> "WAIT"
    [] s = "x" -> "X"
    [] OTHER -> s

VALID_ORCHESTRATOR_ACTIONS == {"RESPOND", "WAIT"}

\* A isValidOrchestratorDecision that accepts any action string.
isValidOrchestratorDecisionAnyAction(decision) ==
  /\ Truthy(decision)
  /\ typeof(decision) = "object"
  /\ Truthy(Get(decision, "action"))
  /\ typeof(Get(decision, "action")) = "string"

\* isValidOrchestratorDecision(decision).
isValidOrchestratorDecision(decision) ==
  /\ Truthy(decision)
  /\ typeof(decision) = "object"
  /\ Truthy(Get(decision, "action"))
  /\ typeof(Get(decision, "action")) = "string"
  /\ toUpperCase(Get(decision, "action").str) \in VALID_ORCHESTRATOR_ACTIONS

\* The positions of a token in a text.
Positions(text, token) == {k \in 1..Len(text) : text[k] = token}

Min(S) == CHOOSE k \in S : \A j \in S : k <= j

Max(S) == CHOOSE k \in S : \A j \in S : j <= k

\* String.prototype.trim: the text without its leading and trailing spaces.
trim(text) ==
  LET inked == {k \in 1..Len(text) : text[k] # " "}
  IN  IF inked = {} THEN << >> ELSE SubSeq(text, Min(inked), Max(inked))

\* The capture of the code fence pattern: what lies between the first
\* fence, an optional json and spaces after it, and the next fence; no
\* match (NoMatch) when the text has fewer than two fences.
NoMatch == [matched |-> FALSE]

RECURSIVE SkipSpaces(_, _)
SkipSpaces(text, k) ==
  IF k <= Len(text) /\ text[k] = " " THEN SkipSpaces(text, k + 1) ELSE k

jsonMatch(text) ==
  LET fences == Positions(text, "fence")
  IN  IF Cardinality(fences) < 2
      THEN NoMatch
      ELSE LET open == Min(fences)
               close == Min(fences \ {open})
               afterJson == IF text[open + 1] = "json" THEN open + 2 ELSE open + 1
               start == SkipSpaces(text, afterJson)
           IN  [matched |-> TRUE, capture |-> SubSeq(text, start, close - 1)]

\* The match of the object pattern: from the first opening brace to the
\* last closing brace of the text; no match when no closing brace follows
\* the first opening brace.
objectMatch(text) ==
  LET opens == Positions(text, "{")
      closes == Positions(text, "}")
  IN  IF opens = {} \/ closes = {} \/ Max(closes) < Min(opens)
      THEN NoMatch
      ELSE [matched |-> TRUE, match |-> SubSeq(text, Min(opens), Max(closes))]

\* The first object-shaped piece of a text: from the first opening brace to
\* the first closing brace after it.
FirstObject(text) ==
  LET opens == Positions(text, "{")
      closes == Positions(text, "}")
  IN  IF opens = {} \/ closes = {} \/ Max(closes) < Min(opens)
      THEN NoMatch
      ELSE [matched |-> TRUE,
            match |-> SubSeq(text, Min(opens), Min({k \in closes : k > Min(opens)}))]

\* JSON.parse(text): null, an object of one member or of none; any other
\* text of these tokens is a syntax error. Spaces between tokens are skipped.
EmptyObject == [constructor |-> Str("Object")]

JSONparse(text) ==
  LET inked == SelectSeq(text, LAMBDA token : token # " ")
  IN  CASE inked = << "null" >> -> Null
        [] inked = << "{", "}" >> -> EmptyObject
        [] Len(inked) = 3 /\ inked[1] = "{" /\ inked[3] = "}" /\ inked[2] \in MemberTokens
             -> ObjectOf(inked[2])
        [] OTHER -> Thrown

\* A parseOrchestratorResponse that returns the action as it was written.
parseOrchestratorResponseKeepsCase(responseText) ==
  LET trimmed == trim(responseText)
      unfenced == IF jsonMatch(trimmed).matched THEN trim(jsonMatch(trimmed).capture) ELSE trimmed
      jsonStr == IF objectMatch(unfenced).matched THEN objectMatch(unfenced).match ELSE unfenced
      decision == JSONparse(jsonStr)
  IN  IF decision = Thrown \/ ~isValidOrchestratorDecision(decision)
      THEN Thrown
      ELSE [action |-> decision.action]

\* parseOrchestratorResponse(responseText): the decision, or Thrown.
parseOrchestratorResponse(responseText) ==
  LET trimmed == trim(responseText)
      unfenced == IF jsonMatch(trimmed).matched THEN trim(jsonMatch(trimmed).capture) ELSE trimmed
      jsonStr == IF objectMatch(unfenced).matched THEN objectMatch(unfenced).match ELSE unfenced
      decision == JSONparse(jsonStr)
  IN  IF decision = Thrown \/ ~isValidOrchestratorDecision(decision)
      THEN Thrown
      ELSE [action |-> Str(toUpperCase(decision.action.str))]

\* The text parseOrchestratorResponse looks for an object in: the trimmed
\* response, or the inside of its first code fence.
Unfenced(responseText) ==
  LET trimmed == trim(responseText)
  IN  IF jsonMatch(trimmed).matched THEN trim(jsonMatch(trimmed).capture) ELSE trimmed

\* The pieces the response texts are made of: an object of one member, and
\* single words, spaces, braces and fences (fence is the three backquotes
\* of a code fence).
Segments ==
  {<< "{", member, "}" >> : member \in MemberTokens} \cup
  {<< token >> : token \in {"{", "}", "fence", " ", "x", "null"}} \cup
  {<< "fence", "json" >>}

\* The longest response text, in segments.
MaxSegments == 3

RECURSIVE Flatten(_)
Flatten(segments) ==
  IF segments = << >> THEN << >> ELSE Head(segments) \o Flatten(Tail(segments))

\* The texts the orchestrator model can answer with.
ResponseTexts ==
  {Flatten(segments) : segments \in UNION {[1..n -> Segments] : n \in 0..MaxSegments}}

\* getOrchestratorDecision when the model answers with text: the action of
\* the parsed decision, or a throw.
getOrchestratorDecision(text) ==
  IF parseOrchestratorResponse(text) = Thrown
  THEN "throw"
  ELSE parseOrchestratorResponse(text).action.str

\* What getOrchestratorDecision can give: the action parsed from the
\* model's response, or a throw (API failure, unparsable or invalid
\* response).
DecisionOutcomes == {"throw"} \cup {getOrchestratorDecision(text) : text \in ResponseTexts}

\* A handler that marks the original message processed as soon as the
\* decision is RESPOND, before the response is generated.
DecideMarksFirst(i) ==
  /\ pc[i] = "decide"
  /\ \E d \in DecisionOutcomes :
       \/ /\ d = "throw"
          /\ Return(i, ErrorResult)
          /\ UNCHANGED << msgs, effects >>
       \/ /\ d = "WAIT"
          /\ pc' = [pc EXCEPT ![i] = "mark"]
          /\ UNCHANGED << locals, result, msgs, effects >>
       \/ /\ d = "RESPOND"
          /\ pc' = [pc EXCEPT ![i] = "generate"]
          /\ msgs' = markMessageProcessed(msgs, latestMessage[i].datetime)
          /\ effects' = [effects EXCEPT ![i].marks = @ + 1]
          /\ UNCHANGED << locals, result >>
  /\ UNCHANGED << meta, now, chatSends, lastSpeaker, chat >>

\* A handler that asks the Decision Engine and reports a WAIT decision as
\* an EXIT.
DecideExitsOnWait(i) ==
  /\ pc[i] = "decide"
  /\ \E d \in DecisionOutcomes :
       \/ /\ d = "throw"
          /\ Return(i, ErrorResult)
       \/ /\ d = "WAIT"
          /\ Return(i, ExitResult("Nothing to do"))
       \/ /\ d = "RESPOND"
          /\ pc' = [pc EXCEPT ![i] = "generate"]
          /\ UNCHANGED << locals, result >>
  /\ UNCHANGED << msgs, meta, now, effects, chatSends, lastSpeaker, chat >>

\* A handler that gives up on a message whose decision fails: it marks the
\* message processed before returning the error.
DecideMarksOnError(i) ==
  /\ pc[i] = "decide"
  /\ \E d \in DecisionOutcomes :
       \/ /\ d = "throw"
          /\ msgs' = markMessageProcessed(msgs, latestMessage[i].datetime)
          /\ Return(i, ErrorResult)
       \/ /\ d = "WAIT"
          /\ pc' = [pc EXCEPT ![i] = "mark"]
          /\ UNCHANGED << locals, result, msgs >>
       \/ /\ d = "RESPOND"
          /\ pc' = [pc EXCEPT ![i] = "generate"]
          /\ UNCHANGED << locals, result, msgs >>
  /\ UNCHANGED << meta, now, effects, chatSends, lastSpeaker, chat >>

\* getOrchestratorDecision resolves or rejects; on RESPOND the speaker is
\* selected and the provider call is issued.
Decide(i) ==
  /\ pc[i] = "decide"
  /\ \E d \in DecisionOutcomes :
       \/ /\ d = "throw"
          /\ Return(i, ErrorResult)
       \/ /\ d = "WAIT"
          /\ pc' = [pc EXCEPT ![i] = "mark"]
          /\ UNCHANGED << locals, result >>
       \/ /\ d = "RESPOND"
          /\ \E md \in {JsMetadata(metadata[i])} :
               IF getNextSpeakerThrows(md)
               THEN Return(i, ErrorResult)
               ELSE /\ pc' = [pc EXCEPT ![i] = "generate"]
                    /\ UNCHANGED << locals, result >>
       \/ /\ d \notin {"throw", "WAIT", "RESPOND"}
          /\ Return(i, UnexpectedResult)
  /\ UNCHANGED << msgs, meta, now, effects, chatSends, lastSpeaker, chat >>

\* A WAIT branch that also advances the speaker index.
MarkProcessedAdvancesIndex(i) ==
  /\ pc[i] = "mark"
  /\ \/ /\ msgs' = markMessageProcessed(msgs, latestMessage[i].datetime)
        /\ meta' = updateSpeakerIndex(meta,
             incrementSpeakerIndex(metadata[i].nextSpeakerIndex,
                                   Len(metadata[i].llmParticipants)))
        /\ effects' = [effects EXCEPT ![i].marks = @ + 1]
        /\ Return(i, WaitResult(latestMessage[i].datetime))
     \/ /\ Return(i, ErrorResult)
        /\ UNCHANGED << msgs, meta, effects >>
  /\ UNCHANGED << now, chatSends, lastSpeaker, chat >>

\* WAIT: markMessageProcessed resolves or rejects.
MarkProcessed(i) ==
  /\ pc[i] = "mark"
  /\ \/ /\ msgs' = markMessageProcessed(msgs, latestMessage[i].datetime)
        /\ effects' = [effects EXCEPT ![i].marks = @ + 1]
        /\ Return(i, WaitResult(latestMessage[i].datetime))
     \/ /\ Return(i, ErrorResult)
        /\ UNCHANGED << msgs, effects >>
  /\ UNCHANGED << meta, now, chatSends, lastSpeaker, chat >>

\* What generateResponse can give: a text, an empty text (a provider
\* response without content), or a throw.
ResponseOutcomes == {"reply", "", "throw"}

\* RESPOND: generateResponse resolves or rejects; the message is built and
\* the next index computed, then the batch write is issued.
Generate(i) ==
  /\ pc[i] = "generate"
  /\ \E responseText \in ResponseOutcomes, t \in ClockReadings :
     \E md \in {JsMetadata(metadata[i])} :
     \E currentSpeaker \in {getNextSpeaker(md)} :
     \E message \in {createChatMessage(Get(currentSpeaker, "name"), Str(responseText),
                                       Undefined, t)} :
       LET count == Len(metadata[i].llmParticipants)
       IN  IF \/ responseText = "throw"
              \/ message = Thrown
              \/ incrementSpeakerIndexThrows(Num(metadata[i].nextSpeakerIndex), Num(count))
           THEN Return(i, ErrorResult) /\ UNCHANGED now
           ELSE /\ pc' = [pc EXCEPT ![i] = "commit"]
                /\ now' = t
                /\ newMessage' = [newMessage EXCEPT ![i] = RawMessage(message)]
                /\ newSpeakerIndex' = [newSpeakerIndex EXCEPT ![i] =
                     incrementSpeakerIndex(metadata[i].nextSpeakerIndex, count)]
                /\ UNCHANGED << metadata, latestMessage, result >>
  /\ UNCHANGED << msgs, meta, effects, chatSends, lastSpeaker, chat >>

\* Position of a persona in a participant list (0 when it is not in it).
PositionOf(participants, name) ==
  IF \E k \in 1..Len(participants) : participants[k].name = name
  THEN CHOOSE k \in 1..Len(participants) : participants[k].name = name
  ELSE 0

\* A batch write that leaves the index update out of the group.
BatchWriteWithoutIndex(i) ==
  /\ ~batchWriteRefused(newMessage[i], latestMessage[i].datetime)
  /\ msgs' = batchWriteMessages(msgs, newMessage[i], latestMessage[i].datetime)
  /\ meta' = meta

\* A batch write conditioned on the original message being still unprocessed.
BatchWriteIfUnprocessed(i) ==
  /\ ~batchWriteRefused(newMessage[i], latestMessage[i].datetime)
  /\ ~IsProcessed(msgs[latestMessage[i].datetime])
  /\ msgs' = batchWriteMessages(msgs, newMessage[i], latestMessage[i].datetime)
  /\ meta' = updateSpeakerIndex(meta, newSpeakerIndex[i])

\* batchWriteResponseAndUpdate resolves: the put of the new message, the
\* update of the original message and the update of the index are applied
\* together, whatever the original message's isProcessed is by now.
BatchWriteApplied(i) ==
  /\ ~batchWriteRefused(newMessage[i], latestMessage[i].datetime)
  /\ msgs' = batchWriteMessages(msgs, newMessage[i], latestMessage[i].datetime)
  /\ meta' = updateSpeakerIndex(meta, newSpeakerIndex[i])

\* A handler that loops: after a commit it generates another response
\* for the same message instead of returning.
CommitThenRespondAgain(i) ==
  /\ pc[i] = "commit"
  /\ \/ /\ BatchWriteApplied(i)
        /\ effects' = [effects EXCEPT ![i] =
             [inserts |-> @.inserts + 1, marks |-> @.marks + 1,
              indexWrites |-> @.indexWrites + 1]]
        /\ lastSpeaker' = PositionOf(metadata[i].llmParticipants, newMessage[i].sender)
        /\ pc' = [pc EXCEPT ![i] = "generate"]
        /\ metadata' = [metadata EXCEPT ![i].nextSpeakerIndex = newSpeakerIndex[i]]
        /\ UNCHANGED << latestMessage, newMessage, newSpeakerIndex, result >>
     \/ /\ Return(i, ErrorResult)
        /\ UNCHANGED << msgs, meta, effects, lastSpeaker, chat >>
  /\ UNCHANGED << now, chatSends, chat >>

\* RESPOND: batchWriteResponseAndUpdate commits the three writes together,
\* or rejects and writes nothing.
Commit(i) ==
  /\ pc[i] = "commit"
  /\ \/ /\ BatchWriteApplied(i)
        /\ effects' = [effects EXCEPT ![i] =
             [inserts |-> @.inserts + 1, marks |-> @.marks + 1,
              indexWrites |-> @.indexWrites + 1]]
        /\ lastSpeaker' = PositionOf(metadata[i].llmParticipants, newMessage[i].sender)
        /\ \E md \in {JsMetadata(metadata[i])} :
           \E currentSpeaker \in {getNextSpeaker(md)} :
           \E speaker \in {RawParticipant(currentSpeaker)} :
             Return(i, RespondResult(speaker, newMessage[i],
                                     latestMessage[i].datetime, newSpeakerIndex[i]))
     \/ /\ Return(i, ErrorResult)
        /\ UNCHANGED << msgs, meta, effects, lastSpeaker, chat >>
  /\ UNCHANGED << now, chatSends, chat >>

Next ==
  \/ StoreChatMessage
  \/ InitializeChatSystem
  \/ \E i \in Invocations :
       \/ Invoke(i)
       \/ FetchMetadata(i)
       \/ FetchLatestMessage(i)
       \/ Decide(i)
       \/ MarkProcessed(i)
       \/ Generate(i)
       \/ Commit(i)

Spec == Init /\ [][Next]_vars

\* Invocations that do not overlap: the handler is invoked only when no
\* other invocation is in flight.
NextSeq ==
  \/ StoreChatMessage
  \/ InitializeChatSystem
  \/ \E i \in Invocations :
       \/ Invoke(i) /\ \A j \in Invocations : pc[j] \in {"idle", "done"}
       \/ FetchMetadata(i)
       \/ FetchLatestMessage(i)
       \/ Decide(i)
       \/ MarkProcessed(i)
       \/ Generate(i)
       \/ Commit(i)

SpecSeq == Init /\ [][NextSeq]_vars

----------------------------------------------------------------------------
(* Properties *)

\* An item built by createChatMessage for a persona (no email attribute).
IsAiMessage(m) == m # NoItem /\ "email" \notin DOMAIN m

\* The index that follows the persona `name` in the round of `md`.
IndexAfter(md, name) ==
  PositionOf(md.llmParticipants, name) % Len(md.llmParticipants)

\* The step finishes invocation i's batch write.
CommitReturns(i) == pc[i] = "commit" /\ pc'[i] = "done"

C2_NoPartialRespondVisible ==
  [][\/ store' = store
     \/ /\ meta' = meta
        /\ \E k \in Keys :
             /\ msgs'[k] # NoItem
             /\ ~IsAiMessage(msgs'[k])
             /\ msgs' = PutItem(msgs, msgs'[k])
     \/ /\ meta = NoItem
        /\ msgs' = msgs
     \/ /\ meta' = meta
        /\ \E k \in Keys : msgs[k] # NoItem /\ msgs' = markMessageProcessed(msgs, k)
     \/ \E k \in Keys, j \in Keys :
          /\ k # j
          /\ IsAiMessage(msgs'[k])
          /\ ~IsProcessed(msgs'[k])
          /\ IsProcessed(msgs'[j])
          /\ msgs' = batchWriteMessages(msgs, msgs'[k], j)
          /\ meta # NoItem
          /\ meta' = updateSpeakerIndex(meta, IndexAfter(meta, msgs'[k].sender))]_vars

\* C2 witness: a commit has happened while another invocation, which has
\* read the metadata after it, is still fetching.
C2_Witness ==
  \E i \in Invocations, j \in Invocations :
    /\ i # j
    /\ result[i].action = "RESPOND"
    /\ pc[j] = "fetch"
    /\ metadata[j] # Unread
    /\ metadata[j] # NoItem
    /\ metadata[j].nextSpeakerIndex = result[i].newSpeakerIndex
    /\ latestMessage[j] = Unread

\* C10: the stored nextSpeakerIndex is always in [0, len(llmParticipants)),
\* also under overlapping invocations.
C10_SpeakerIndexInRange ==
  meta # NoItem =>
    /\ meta.nextSpeakerIndex \in Int
    /\ 0 <= meta.nextSpeakerIndex
    /\ meta.nextSpeakerIndex < Len(meta.llmParticipants)

\* C10 witness: overlapping invocations have both committed and the index
\* has wrapped around to 0.
C10_Witness ==
  /\ \A i \in Invocations : result[i].action = "RESPOND"
  /\ \E i \in Invocations : result[i].newSpeakerIndex = 0
  /\ meta.nextSpeakerIndex = 0

\* The metadata and the latest item an invocation has when its fetch ends
\* in this step: the value read earlier, or the one read now.
MetadataSeen(i) == IF metadata[i] # Unread THEN metadata[i] ELSE getChatMetadata

LatestSeen(i) == IF latestMessage[i] # Unread THEN latestMessage[i] ELSE getLatestMessage

\* The invocation is past the exit guards and has not returned.
PastGuards(i) == pc[i] \in {"decide", "mark", "generate", "commit"}

\* C3: once the latest real message has isProcessed = true, it stays the
\* latest item and processed until a new message is stored, and every
\* invocation whose reads resolve with it (and with the metadata) returns
\* EXIT 'Message already processed' without calling the Decision Engine and
\* without writing; an invocation never goes past the guards with a
\* processed latest message.
C3_ProcessedLatestExits ==
  [][/\ \A i \in Invocations :
          /\ pc[i] = "fetch" /\ pc'[i] # "fetch"
          /\ result'[i] # ErrorResult
          /\ MetadataSeen(i) # NoItem
          /\ LatestSeen(i) # NoItem
          /\ LatestSeen(i).datetime # 0
          /\ IsProcessed(LatestSeen(i))
          => /\ pc'[i] = "done"
             /\ result'[i] = ExitResult("Message already processed")
             /\ store' = store
     /\ \A i \in Invocations :
          pc'[i] \in {"decide", "mark", "generate", "commit"}
          => ~IsProcessed(latestMessage'[i])
     /\ (MaxKey(msgs) > 0 /\ IsProcessed(msgs[MaxKey(msgs)]))
          => \/ /\ MaxKey(msgs') = MaxKey(msgs)
                /\ IsProcessed(msgs'[MaxKey(msgs')])
             \/ \E k \in Keys :
                  /\ msgs'[k] # msgs[k]
                  /\ ~IsProcessed(msgs'[k])]_vars

\* C3 witness: the latest message is processed and two invocations in a row
\* have returned EXIT 'Message already processed'.
C3_Witness ==
  /\ MaxKey(msgs) > 0
  /\ IsProcessed(msgs[MaxKey(msgs)])
  /\ \A i \in Invocations : result[i] = ExitResult("Message already processed")

\* C4: the commit is not conditioned on the triggering message being still
\* unprocessed: an invocation that has reached its batch write can apply it
\* also when another invocation has already processed the same message.
C4_CommitIgnoresIsProcessed ==
  \A i \in Invocations :
    /\ pc[i] = "commit"
    /\ ~batchWriteRefused(newMessage[i], latestMessage[i].datetime)
    /\ IsProcessed(msgs[latestMessage[i].datetime])
    => ENABLED BatchWriteApplied(i)

\* C4 witness: two overlapping invocations have both returned RESPOND for
\* the same triggering message, and both their messages are in the store.
C4_Witness ==
  \E i \in Invocations, j \in Invocations :
    /\ i # j
    /\ result[i].action = "RESPOND"
    /\ result[j].action = "RESPOND"
    /\ result[i].originalMessageProcessed = result[j].originalMessageProcessed
    /\ result[i].newMessageDatetime # result[j].newMessageDatetime
    /\ IsAiMessage(msgs[result[i].newMessageDatetime])
    /\ IsAiMessage(msgs[result[j].newMessageDatetime])
    /\ ~IsAiMessage(msgs[result[i].originalMessageProcessed])

\* C5: on WAIT the invocation sets isProcessed = true on the message it read
\* as latest and changes nothing else (no item is added, the metadata is
\* unchanged), and returns WAIT with that message's datetime; when the
\* update fails it returns ERROR and the store is unchanged.
C5_WaitOnlyMarks ==
  [][\A i \in Invocations :
       pc[i] = "mark" /\ pc'[i] # "mark" =>
         LET original == latestMessage[i].datetime
         IN  IF result'[i].action = "WAIT"
             THEN /\ result'[i] = WaitResult(original)
                  /\ IsProcessed(msgs'[original])
                  /\ msgs'[original] = [isProcessed |-> TRUE] @@ msgs[original]
                  /\ \A k \in Keys \ {original} : msgs'[k] = msgs[k]
                  /\ meta' = meta
             ELSE /\ result'[i] = ErrorResult
                  /\ store' = store]_vars

\* C5 witness: an invocation has returned WAIT and its message is processed.
C5_Witness ==
  \E i \in Invocations :
    /\ result[i].action = "WAIT"
    /\ effects[i] = [inserts |-> 0, marks |-> 1, indexWrites |-> 0]
    /\ IsProcessed(msgs[result[i].messageProcessed])

\* C6: an invocation in which a step raises returns an ERROR result with
\* status 500, and it has written nothing: the step that returns ERROR
\* leaves the store unchanged and no earlier step of the invocation wrote.
\* Every return carries a result.
C6_ErrorWritesNothing ==
  [][\A i \in Invocations :
       /\ pc[i] # "done" /\ pc'[i] = "done" => result'[i] # NoResult
       /\ pc[i] # "done" /\ pc'[i] = "done" /\ result'[i].action = "ERROR" =>
            /\ result'[i].statusCode = 500
            /\ store' = store
            /\ effects'[i] = NoEffects]_vars

\* C6 witness: an invocation has returned ERROR from its batch write's
\* failure or an earlier step, after the guards found work to do.
C6_Witness ==
  \E i \in Invocations :
    /\ result[i] = ErrorResult
    /\ effects[i] = NoEffects
    /\ meta # NoItem
    /\ MaxKey(msgs) > 0
    /\ ~IsProcessed(msgs[MaxKey(msgs)])

\* The items a step adds or replaces (a change of isProcessed alone is not
\* a new item).
ItemsPut ==
  {k \in Keys : msgs'[k] # msgs[k] /\ msgs'[k] # [isProcessed |-> TRUE] @@ msgs[k]}

\* C8: one invocation inserts at most one message, whatever it decides and
\* whatever fails: a step of the handler puts at most one item, and only
\* the batch write of an invocation that has inserted nothing yet puts one.
C8_AtMostOneInsert ==
  [][/\ \A i \in Invocations : effects'[i].inserts <= 1
     /\ Cardinality(ItemsPut) <= 1
     /\ \A k \in ItemsPut :
          IsAiMessage(msgs'[k]) =>
            \E i \in Invocations :
              /\ CommitReturns(i)
              /\ effects[i].inserts = 0
              /\ effects'[i].inserts = 1]_vars

\* C8 witness: an invocation has inserted its one message and returned.
C8_Witness ==
  \E i \in Invocations :
    /\ pc[i] = "done"
    /\ effects[i].inserts = 1
    /\ IsAiMessage(msgs[result[i].newMessageDatetime])

\* C9: with invocations that do not overlap, each committed persona message
\* is from the participant the stored index points to, and the next
\* committed one is from the participant after it in llmParticipants,
\* cyclically, with no skip and no repeat.
C9_RoundRobinOrder ==
  [][\A i \in Invocations :
       CommitReturns(i) /\ result'[i].action = "RESPOND" =>
         LET count == Len(meta.llmParticipants)
             sender == msgs'[newMessage[i].datetime].sender
         IN  /\ sender = meta.llmParticipants[meta.nextSpeakerIndex + 1].name
             /\ lastSpeaker' = PositionOf(meta.llmParticipants, sender)
             /\ lastSpeaker # 0 => lastSpeaker' = (lastSpeaker % count) + 1
             /\ meta'.nextSpeakerIndex = lastSpeaker' % count]_vars

\* C9 witness: two persona messages were committed one after the other, the
\* second by the participant after the first, wrapping around the list.
C9_Witness ==
  \E k \in Keys, j \in Keys :
    /\ k < j
    /\ IsAiMessage(msgs[k]) /\ IsAiMessage(msgs[j])
    /\ msgs[k].sender = llmParticipants[Len(llmParticipants)].name
    /\ msgs[j].sender = llmParticipants[1].name
    /\ IsProcessed(msgs[k])
    /\ lastSpeaker = 1
    /\ meta.nextSpeakerIndex = 1

\* The steps in which a call of the handler succeeds.
FirstReadSucceeds(i) ==
  /\ FetchMetadata(i) \/ FetchLatestMessage(i)
  /\ pc'[i] = "fetch"

FetchSucceeds(i) ==
  /\ FetchMetadata(i) \/ FetchLatestMessage(i)
  /\ pc'[i] # "fetch"
  /\ result'[i] # ErrorResult

DecideSucceeds(i) == Decide(i) /\ pc'[i] \in {"mark", "generate"}

MarkSucceeds(i) == MarkProcessed(i) /\ result'[i].action = "WAIT"

GenerateSucceeds(i) ==
  /\ Generate(i)
  /\ pc'[i] = "commit"
  /\ newMessage'[i].datetime > latestMessage[i].datetime

CommitSucceeds(i) == Commit(i) /\ result'[i].action = "RESPOND"

\* A step of a started invocation.
HandlerStep(i) ==
  \/ FetchMetadata(i)
  \/ FetchLatestMessage(i)
  \/ Decide(i)
  \/ MarkProcessed(i)
  \/ Generate(i)
  \/ Commit(i)

\* Ticks keep firing, a started invocation runs on, and a call that is
\* tried again and again eventually succeeds.
Fairness ==
  /\ WF_vars(\E i \in Invocations : Invoke(i))
  /\ \A i \in Invocations : WF_vars(HandlerStep(i))
  /\ SF_vars(\E i \in Invocations : FirstReadSucceeds(i))
  /\ SF_vars(\E i \in Invocations : FetchSucceeds(i))
  /\ SF_vars(\E i \in Invocations : DecideSucceeds(i))
  /\ SF_vars(\E i \in Invocations : MarkSucceeds(i))
  /\ SF_vars(\E i \in Invocations : GenerateSucceeds(i))
  /\ SF_vars(\E i \in Invocations : CommitSucceeds(i))

SpecFair == Spec /\ Fairness

FetchResolves(i) ==
  /\ pc[i] = "fetch"
  /\ pc'[i] # "fetch"
  /\ result'[i] # ErrorResult

\* C11: the exit guards are evaluated in a fixed order and the first that
\* matches decides: metadata absent gives 'Metadata not found' (also when
\* no message exists); otherwise no item gives 'No messages exist';
\* otherwise datetime 0 gives 'No messages to process'; otherwise
\* isProcessed = true gives 'Message already processed'; otherwise the
\* invocation goes on to the decision.
C11_ExitGuardOrder ==
  [][\A i \in Invocations :
       FetchResolves(i) =>
         LET md == MetadataSeen(i)
             lm == LatestSeen(i)
         IN  /\ md = NoItem
                  => result'[i] = ExitResult("Metadata not found")
             /\ md # NoItem /\ lm = NoItem
                  => result'[i] = ExitResult("No messages exist")
             /\ md # NoItem /\ lm # NoItem /\ lm.datetime = 0
                  => result'[i] = ExitResult("No messages to process")
             /\ md # NoItem /\ lm # NoItem /\ lm.datetime # 0 /\ IsProcessed(lm)
                  => result'[i] = ExitResult("Message already processed")
             /\ md # NoItem /\ lm # NoItem /\ lm.datetime # 0 /\ ~IsProcessed(lm)
                  => pc'[i] = "decide" /\ result'[i] = NoResult]_vars

\* C11 witness: with no metadata and no message one invocation returned
\* 'Metadata not found', and another returned 'No messages exist'.
C11_Witness ==
  \E i \in Invocations, j \in Invocations :
    /\ result[i] = ExitResult("Metadata not found")
    /\ result[j] = ExitResult("No messages exist")
    /\ MaxKey(msgs) = 0

\* C12: an invocation that ends in EXIT leaves the store unchanged: it
\* returns from the guards, before the Decision Engine and before any
\* provider call, and it has written nothing.
C12_ExitWritesNothing ==
  [][\A i \in Invocations :
       pc[i] # "done" /\ pc'[i] = "done" /\ result'[i].action = "EXIT" =>
         /\ pc[i] = "fetch"
         /\ store' = store
         /\ effects'[i] = NoEffects
         /\ now' = now]_vars

\* C12 witness: an invocation has returned EXIT with the metadata present
\* and no message stored.
C12_Witness ==
  \E i \in Invocations :
    /\ result[i] = ExitResult("No messages to process")
    /\ effects[i] = NoEffects
    /\ meta # NoItem
    /\ MaxKey(msgs) = 0

-----------------------------------------------------------------------------
(* Rate limiter: checkMessageRateLimit (services/dynamoDbService.js)        *)

\* const delayRequired = 60 (seconds).
delayRequired == 60

\* Date.now() is in milliseconds; the code divides the difference by 1000.
MsPerSecond == 1000

\* Largest elapsed time, in seconds, of the rate limiter inputs explored.
MaxSeconds == 61

\* The chat-send requests that may overlap.
Requests == {"send1", "send2"}

\* Math.ceil(a / b) for a > 0.
Ceil(a, b) == (a + b - 1) \div b

\* query(SenderEmailIndex, email = :email): the keys of the sender's items.
SenderEmailIndex(m, senderEmail) ==
  {k \in DOMAIN m : m[k] # NoItem /\ "email" \in DOMAIN m[k] /\ m[k].email = senderEmail}

\* ScanIndexForward: false, Limit: 1: the sender's most recent item.
LastMessageKey(m, senderEmail) ==
  CHOOSE k \in SenderEmailIndex(m, senderEmail) :
    \A j \in SenderEmailIndex(m, senderEmail) : j <= k

\* A limiter that also denies at exactly delayRequired seconds.
checkMessageRateLimitStrict(m, senderEmail, time) ==
  IF SenderEmailIndex(m, senderEmail) = {}
  THEN [canSend |-> TRUE]
  ELSE LET timeDiffMs == time - m[LastMessageKey(m, senderEmail)].datetime
       IN  IF timeDiffMs <= delayRequired * MsPerSecond
           THEN [canSend |-> FALSE,
                 waitTime |-> Ceil(delayRequired * MsPerSecond - timeDiffMs, MsPerSecond)]
           ELSE [canSend |-> TRUE]

\* A limiter that compares the difference in milliseconds with delayRequired.
checkMessageRateLimitMillis(m, senderEmail, time) ==
  IF SenderEmailIndex(m, senderEmail) = {}
  THEN [canSend |-> TRUE]
  ELSE LET timeDiffMs == time - m[LastMessageKey(m, senderEmail)].datetime
       IN  IF timeDiffMs < delayRequired
           THEN [canSend |-> FALSE, waitTime |-> delayRequired - timeDiffMs]
           ELSE [canSend |-> TRUE]

\* checkMessageRateLimit(senderEmail) evaluated when Date.now() reads time:
\* timeDiffSeconds = (now - lastTimestamp) / 1000, deny when it is below
\* delayRequired, with waitTime = Math.ceil(delayRequired - timeDiffSeconds)
\* (the number in the 'Please wait ... seconds' message).
checkMessageRateLimit(m, senderEmail, time) ==
  IF SenderEmailIndex(m, senderEmail) = {}
  THEN [canSend |-> TRUE]
  ELSE LET timeDiffMs == time - m[LastMessageKey(m, senderEmail)].datetime
       IN  IF timeDiffMs < delayRequired * MsPerSecond
           THEN [canSend |-> FALSE,
                 waitTime |-> Ceil(delayRequired * MsPerSecond - timeDiffMs, MsPerSecond)]
           ELSE [canSend |-> TRUE]

\* Inputs of the rate limiter: the time of the sender's most recent message,
\* the offsets within a second, and the elapsed times.
LastAt == 2 * delayRequired * MsPerSecond

OlderAt == LastAt - (delayRequired + 30) * MsPerSecond

ElapsedOffsets == {0, 1, 500, 999}

ElapsedTimes == {sec * MsPerSecond + ms : sec \in 0..MaxSeconds, ms \in ElapsedOffsets}

\* The store with the chosen items: the sender's most recent message, an
\* older message of the sender, a message of another sender at otherAt.
RateStore(hasLast, hasOlder, otherAt) ==
  LET present == (IF hasLast THEN {LastAt} ELSE {})
                 \cup (IF hasOlder THEN {OlderAt} ELSE {})
                 \cup (IF otherAt > 0 THEN {otherAt} ELSE {})
  IN  [k \in present |->
         IF k = otherAt
         THEN chatItem("hello", "bob", "bob@example.com", k)
         ELSE chatItem("hi", "alice", "alice@example.com", k)]

RateInit ==
  /\ \E hasLast \in BOOLEAN, hasOlder \in BOOLEAN, elapsed \in ElapsedTimes,
        other \in {"none", "before", "now"} :
       /\ now = LastAt + elapsed
       /\ other = "now" => elapsed > 0
       /\ msgs = RateStore(hasLast, hasOlder,
                           CASE other = "none" -> 0
                             [] other = "before" -> LastAt - 1
                             [] other = "now" -> LastAt + elapsed)
  /\ meta = NoItem
  /\ pc = [r \in {"send1"} |-> "check"]
  /\ chat = [r \in {"send1"} |-> [email |-> "alice@example.com"]]
  /\ result = [r \in {"send1"} |-> NoResult]
  /\ metadata = << >>
  /\ latestMessage = << >>
  /\ newMessage = << >>
  /\ newSpeakerIndex = << >>
  /\ effects = << >>
  /\ chatSends = 0
  /\ lastSpeaker = 0

\* const messageDelayCheck = await checkMessageRateLimit(tokenInfo.email).
RateLimitCheck ==
  /\ pc["send1"] = "check"
  /\ pc' = [pc EXCEPT !["send1"] = "checked"]
  /\ chat' = [chat EXCEPT !["send1"] =
       [email |-> @.email,
        messageDelayCheck |-> checkMessageRateLimit(msgs, @.email, now)]]
  /\ UNCHANGED << msgs, meta, now, locals, result, effects, chatSends, lastSpeaker >>

RateNext == RateLimitCheck

RateSpec == RateInit /\ [][RateNext]_vars

-----------------------------------------------------------------------------
(* The chat-send handler (default branch), one action per await point       *)

\* Minutes of clock the chat-send model explores.
MaxMinutes == 2

\* The clock readings explored: each full minute and the millisecond before.
ChatTimes == {m * delayRequired * MsPerSecond - d : m \in 1..MaxMinutes, d \in {0, 1}}

\* Date.now() in the chat-send model: never before the previous reading.
ChatClockReadings == {t \in ChatTimes : t >= now}

\* tokenInfo.email of the requests: the requests of one sender (messages of
\* other senders do not enter checkMessageRateLimit).
Senders == {"alice@example.com"}

\* requestBody.userName of a sender.
UserName(email) == IF email = "alice@example.com" THEN "alice" ELSE "bob"

\* Object.keys(personalities) of config.js.
Personalities == {"comedian", "captainObvious", "counselor"}

\* numPersonalities is 1 or 3; the keys are drawn without repetition.
ChosenPersonalities == {c \in SUBSET Personalities : Cardinality(c) \in {1, 3}}

\* The errors the awaited calls reject with.
StoreError == [source |-> "store", message |-> "DynamoDB error"]

ProviderError == [source |-> "provider", message |-> "AI model error"]

NetworkError == [source |-> "auth", message |-> "Network error"]

TokenError == [source |-> "auth", message |-> "Invalid token"]

\* messageDelayCheck before the check has resolved.
NoCheck == [canSend |-> "pending"]

\* A catch block that answers every error as a rate-limit denial.
chatSendCatchAsRateLimit(error) ==
  [statusCode |-> 429, error |-> "Please wait", details |-> error.message]

\* The catch block: 401 for the token errors, 500 otherwise.
chatSendCatch(error) ==
  IF error.message \in {"Token not issued for this client", "Invalid token"}
  THEN [statusCode |-> 401, error |-> error.message, details |-> error.message]
  ELSE [statusCode |-> 500, error |-> "Internal Server Error",
        details |-> error.message]

\* The handler's locals before the request is read and after it returned.
NoLocals ==
  [email |-> "-", messageDelayCheck |-> NoCheck,
   personas |-> [p \in Personalities |-> "unchosen"]]

\* The handler returns a response; its locals are gone.
ChatReturn(r, response) ==
  /\ pc' = [pc EXCEPT ![r] = "done"]
  /\ result' = [result EXCEPT ![r] = response]
  /\ chat' = [chat EXCEPT ![r] = NoLocals]

\* An awaited call of the handler body rejects: the catch block answers.
ChatThrow(r, error) ==
  /\ ChatReturn(r, chatSendCatch(error))

ChatInit ==
  /\ msgs = [k \in ChatTimes |-> NoItem]
  /\ meta = NoItem
  /\ now = delayRequired * MsPerSecond - 1
  /\ pc = [r \in Requests |-> "idle"]
  /\ result = [r \in Requests |-> NoResult]
  /\ chat = [r \in Requests |-> NoLocals]
  /\ metadata = << >>
  /\ latestMessage = << >>
  /\ newMessage = << >>
  /\ newSpeakerIndex = << >>
  /\ effects = << >>
  /\ chatSends = 0
  /\ lastSpeaker = 0

\* The request arrives: Authorization header, verifyAccessToken, userInput.
Receive(r) ==
  /\ pc[r] = "idle"
  /\ \/ ChatReturn(r, [statusCode |-> 401,
                       error |-> "Missing or invalid Authorization header"])
     \/ \E error \in {TokenError, NetworkError} : ChatThrow(r, error)
     \/ ChatReturn(r, [statusCode |-> 400,
                       error |-> "Missing userInput in request body"])
     \/ \E email \in Senders :
          /\ chat' = [chat EXCEPT ![r].email = email]
          /\ pc' = [pc EXCEPT ![r] = "check"]
          /\ UNCHANGED result
  /\ UNCHANGED << msgs, meta, now, locals, effects, chatSends, lastSpeaker >>

\* A handler that stores the user message before it looks at the result of
\* the rate-limit check.
CheckRateLimitStoresFirst(r) ==
  /\ pc[r] = "check"
  /\ \/ \E t \in ChatClockReadings :
          LET check == checkMessageRateLimit(msgs, chat[r].email, t)
          IN  /\ now' = t
              /\ msgs' = PutItem(msgs, chatItem("hi", UserName(chat[r].email),
                                                chat[r].email, t))
              /\ IF check.canSend
                 THEN /\ pc' = [pc EXCEPT ![r] = "respond"]
                      /\ \E chosen \in ChosenPersonalities :
                           chat' = [chat EXCEPT
                             ![r].messageDelayCheck = check,
                             ![r].personas = [p \in Personalities |->
                                IF p \in chosen THEN "generate" ELSE "unchosen"]]
                      /\ UNCHANGED result
                 ELSE ChatReturn(r, [statusCode |-> 429, error |-> "Please wait",
                                     waitTime |-> check.waitTime])
     \/ /\ ChatThrow(r, StoreError)
        /\ UNCHANGED << msgs, now >>
  /\ UNCHANGED << meta, locals, effects, chatSends, lastSpeaker >>

\* checkMessageRateLimit(tokenInfo.email): 429 when it denies.
CheckRateLimit(r) ==
  /\ pc[r] = "check"
  /\ \/ \E t \in ChatClockReadings :
          LET check == checkMessageRateLimit(msgs, chat[r].email, t)
          IN  /\ now' = t
              /\ IF check.canSend
                 THEN /\ pc' = [pc EXCEPT ![r] = "store"]
                      /\ chat' = [chat EXCEPT ![r].messageDelayCheck = check]
                      /\ UNCHANGED result
                 ELSE ChatReturn(r, [statusCode |-> 429, error |-> "Please wait",
                                     waitTime |-> check.waitTime])
     \/ /\ ChatThrow(r, StoreError)
        /\ UNCHANGED now
  /\ UNCHANGED << msgs, meta, locals, effects, chatSends, lastSpeaker >>

\* A put of the user message that is refused when the sender's latest
\* message is less than delayRequired old at the time of the put.
PutUserMessageIfAllowed(r) ==
  \E t \in ChatClockReadings :
    /\ checkMessageRateLimit(msgs, chat[r].email, t).canSend
    /\ now' = t
    /\ msgs' = PutItem(msgs, chatItem("hi", UserName(chat[r].email), chat[r].email, t))

\* storeChatMessage(userInput, userName, tokenInfo.email): an unconditional
\* put under the current millisecond.
PutUserMessage(r) ==
  \E t \in ChatClockReadings :
    /\ now' = t
    /\ msgs' = PutItem(msgs, chatItem("hi", UserName(chat[r].email), chat[r].email, t))

\* The user message is stored, then the personalities are chosen and their
\* pipelines (generate, then store) start under Promise.all.
StoreUserMessage(r) ==
  /\ pc[r] = "store"
  /\ \/ /\ PutUserMessage(r)
        /\ \E chosen \in ChosenPersonalities :
             chat' = [chat EXCEPT
               ![r].personas = [p \in Personalities |->
                                  IF p \in chosen THEN "generate" ELSE "unchosen"]]
        /\ pc' = [pc EXCEPT ![r] = "respond"]
        /\ UNCHANGED result
     \/ /\ ChatThrow(r, StoreError)
        /\ UNCHANGED << msgs, now >>
  /\ UNCHANGED << meta, locals, effects, chatSends, lastSpeaker >>

\* A pipeline rejects: Promise.all rejects with the first rejection and the
\* catch block answers; the pipelines still in flight are not followed
\* after the handler has returned.
PipelineFails(r, p, error) == ChatReturn(r, chatSendCatch(error))

\* generateAiResponse(userInput, personalityConfig).
GeneratePersonaResponse(r, p) ==
  /\ pc[r] = "respond"
  /\ chat[r].personas[p] = "generate"
  /\ \/ /\ chat' = [chat EXCEPT ![r].personas[p] = "store"]
        /\ UNCHANGED << pc, result >>
     \/ PipelineFails(r, p, ProviderError)
  /\ UNCHANGED << msgs, meta, now, locals, effects, chatSends, lastSpeaker >>

\* storeChatMessage(responseText, personalityKey, "-").
StorePersonaResponse(r, p) ==
  /\ pc[r] = "respond"
  /\ chat[r].personas[p] = "store"
  /\ \/ /\ \E t \in ChatClockReadings :
             /\ now' = t
             /\ msgs' = PutItem(msgs, chatItem("reply", p, "-", t))
        /\ chat' = [chat EXCEPT ![r].personas[p] = "stored"]
        /\ UNCHANGED << pc, result >>
     \/ /\ PipelineFails(r, p, StoreError)
        /\ UNCHANGED << msgs, now >>
  /\ UNCHANGED << meta, locals, effects, chatSends, lastSpeaker >>

\* Promise.all resolved: 200 with the responses.
RespondOk(r) ==
  /\ pc[r] = "respond"
  /\ \A p \in Personalities : chat[r].personas[p] \in {"unchosen", "stored"}
  /\ ChatReturn(r, [statusCode |-> 200,
                    responses |-> {p \in Personalities : chat[r].personas[p] = "stored"}])
  /\ UNCHANGED << msgs, meta, now, locals, effects, chatSends, lastSpeaker >>

ChatNext ==
  \E r \in Requests :
    \/ Receive(r)
    \/ CheckRateLimit(r)
    \/ StoreUserMessage(r)
    \/ \E p \in Personalities : GeneratePersonaResponse(r, p)
    \/ \E p \in Personalities : StorePersonaResponse(r, p)
    \/ RespondOk(r)

ChatSpec == ChatInit /\ [][ChatNext]_vars

\* Requests handled one after another: a request is received only when no
\* other request is being handled.
ChatNextSeq ==
  \E r \in Requests :
    \/ Receive(r) /\ \A q \in Requests : pc[q] \in {"idle", "done"}
    \/ CheckRateLimit(r)
    \/ StoreUserMessage(r)
    \/ \E p \in Personalities : GeneratePersonaResponse(r, p)
    \/ \E p \in Personalities : StorePersonaResponse(r, p)
    \/ RespondOk(r)

ChatSpecSeq == ChatInit /\ [][ChatNextSeq]_vars

\* C13: checkMessageRateLimit(email) at time now allows exactly when the
\* email has no prior message or its most recent message is at least 60
\* seconds old (exactly 60 s allows); otherwise it denies with the wait
\* ceil(60 - elapsed) seconds (30 s elapsed gives 30, 1 s gives 59).
\* Messages of other senders and older messages of the sender do not
\* matter: the result is the one for the sender's latest message alone.
C13_RateLimitPolicy ==
  pc["send1"] = "checked" =>
    LET check == chat["send1"].messageDelayCheck
        own == {k \in DOMAIN msgs : msgs[k].email = "alice@example.com"}
    IN  /\ own = {} => check = [canSend |-> TRUE]
        /\ \A last \in own :
             (\A k \in own : k <= last) =>
               LET elapsedMs == now - last
                   remainingMs == 60000 - elapsedMs
               IN  /\ check.canSend <=> elapsedMs >= 60000
                   /\ ~check.canSend =>
                        /\ DOMAIN check = {"canSend", "waitTime"}
                        /\ check.waitTime * 1000 >= remainingMs
                        /\ (check.waitTime - 1) * 1000 < remainingMs
                   /\ elapsedMs = 30000 => check = [canSend |-> FALSE, waitTime |-> 30]
                   /\ elapsedMs = 1000 => check = [canSend |-> FALSE, waitTime |-> 59]
                   /\ elapsedMs = 60000 => check = [canSend |-> TRUE]
                   /\ check = checkMessageRateLimit(
                                [k \in {last} |-> msgs[k]], "alice@example.com", now)

\* C13 witness: a send is denied with a wait of 59 seconds while the sender
\* has an older message and another sender has a more recent one.
C13_Witness ==
  /\ pc["send1"] = "checked"
  /\ chat["send1"].messageDelayCheck = [canSend |-> FALSE, waitTime |-> 59]
  /\ \E k \in DOMAIN msgs : msgs[k].email = "bob@example.com" /\ k = now
  /\ \E k \in DOMAIN msgs : msgs[k].email = "alice@example.com" /\ k = OlderAt
  /\ \E k \in DOMAIN msgs : msgs[k].email = "alice@example.com" /\ k = LastAt

\* The keys of the user messages stored for an email.
UserMessageKeys(email) ==
  {k \in DOMAIN msgs : msgs[k] # NoItem /\ "email" \in DOMAIN msgs[k]
                        /\ msgs[k].email = email}

\* C14: when the chat-send requests of a sender are handled one after
\* another, any two user messages stored for the same email have datetimes
\* at least 60 seconds apart.
C14_SequentialSendsSpaced ==
  \A email \in Senders :
    \A k \in UserMessageKeys(email), j \in UserMessageKeys(email) :
      k < j => j - k >= 60000

\* C14 witness: a sender has two user messages in the store, exactly 60
\* seconds apart, and both requests were answered 200.
C14_Witness ==
  /\ \E k \in UserMessageKeys("alice@example.com"),
        j \in UserMessageKeys("alice@example.com") : j - k = 60000
  /\ \A r \in Requests : result[r].statusCode = 200

\* C15: the rate-limit check is not transactional with the write: a request
\* that has passed the check stores its message also when, by now, the
\* sender's latest message is less than 60 seconds old, as after an
\* overlapping request of the same sender stored first.
C15_CheckNotTransactional ==
  \A r \in Requests :
    /\ pc[r] = "store"
    /\ ~checkMessageRateLimit(msgs, chat[r].email, now).canSend
    => ENABLED (PutUserMessage(r) /\ now' = now)

\* C15 witness: two user messages of one sender less than 60 seconds apart
\* are in the store, and both requests have stored theirs.
C15_Witness ==
  /\ \E k \in UserMessageKeys("alice@example.com"),
        j \in UserMessageKeys("alice@example.com") : k < j /\ j - k < 60000
  /\ \A r \in Requests : pc[r] \in {"respond", "done"}
  /\ \A r \in Requests : pc[r] = "done" => result[r].statusCode = 200

\* The request returns in this step.
ChatReturns(r) == pc[r] # "done" /\ pc'[r] = "done"

\* C16: the rate-limit check comes before any write.  A denied request
\* returns 429 from the check with the store unchanged and no personality
\* started.  Every put is by a request whose check allowed; the
\* personalities start only in the step that stores the user message; a
\* response is generated only after that, and a personality's response is
\* put only after it was generated.
C16_CheckBeforeWritesAndGeneration ==
  [][/\ \A r \in Requests :
          ChatReturns(r) /\ result'[r].statusCode = 429 =>
            /\ pc[r] = "check"
            /\ msgs' = msgs
            /\ \A p \in Personalities : chat[r].personas[p] = "unchosen"
     /\ msgs' # msgs =>
          \E r \in Requests :
            /\ pc[r] \in {"store", "respond"}
            /\ chat[r].messageDelayCheck = [canSend |-> TRUE]
            /\ chat'[r] # chat[r]
     /\ \A r \in Requests, p \in Personalities :
          /\ (chat[r].personas[p] = "unchosen" /\ chat'[r].personas[p] # "unchosen")
               => /\ pc[r] = "store"
                  /\ chat'[r].personas[p] = "generate"
                  /\ msgs'[now'] = chatItem("hi", UserName(chat[r].email),
                                            chat[r].email, now')
          /\ (chat[r].personas[p] # "store" /\ chat'[r].personas[p] = "store")
               => /\ pc[r] = "respond"
                  /\ chat[r].personas[p] = "generate"
                  /\ msgs' = msgs
          /\ (chat[r].personas[p] # "stored" /\ chat'[r].personas[p] = "stored")
               => /\ chat[r].personas[p] = "store"
                  /\ msgs'[now'] = chatItem("reply", p, "-", now')
     /\ \A k \in DOMAIN msgs :
          (msgs'[k] # msgs[k] /\ msgs'[k].email = "-") =>
            \E r \in Requests :
              /\ chat[r].personas[msgs'[k].sender] = "store"
              /\ chat'[r].personas[msgs'[k].sender] = "stored"]_vars

\* C16 witness: one request was denied with 429, the other stored the user
\* message and the responses of three personalities and was answered 200.
C16_Witness ==
  \E r \in Requests, q \in Requests :
    /\ result[r].statusCode = 429
    /\ result[q].statusCode = 200
    /\ result[q].responses = Personalities
    /\ UserMessageKeys("alice@example.com") # {}
    /\ \E k \in DOMAIN msgs : msgs[k] # NoItem /\ msgs[k].email = "-"

\* C17: a chat-send that fails because a store or provider call rejects is
\* answered 500 'Internal Server Error', never 429; 429 is answered only
\* from the rate-limit check, when it denied.
C17_FailureIsNot429 ==
  [][\A r \in Requests :
       ChatReturns(r) =>
         /\ ("details" \in DOMAIN result'[r]
               /\ result'[r].details \in {StoreError.message, ProviderError.message})
              => /\ result'[r].statusCode = 500
                 /\ result'[r].error = "Internal Server Error"
         /\ pc[r] \in {"store", "respond"} => result'[r].statusCode \in {200, 500}
         /\ pc[r] = "check" => result'[r].statusCode \in {429, 500}
         /\ result'[r].statusCode = 429 =>
              /\ pc[r] = "check"
              /\ "details" \notin DOMAIN result'[r]
              /\ ~checkMessageRateLimit(msgs, chat[r].email, now').canSend
              /\ result'[r].waitTime =
                   checkMessageRateLimit(msgs, chat[r].email, now').waitTime]_vars

\* C17 witness: one request failed on a provider error after its user
\* message was stored and was answered 500; the other was denied with 429.
C17_Witness ==
  \E r \in Requests, q \in Requests :
    /\ result[r].statusCode = 500
    /\ result[r].details = ProviderError.message
    /\ result[q].statusCode = 429
    /\ UserMessageKeys("alice@example.com") # {}

\* C18: every message record a step writes to the store, by storeChatMessage
\* or by the orchestrator's insert, satisfies the ChatMessage invariants: id
\* 'chat', datetime > 0, sender one of user, gemini, claude, openai, message
\* non-empty, and isProcessed a boolean that is false at creation.
C18_WrittenRecordsValid ==
  [][\A k \in ItemsPut :
       /\ validateChatMessage(JsMessage(msgs'[k]))
       /\ msgs'[k].isProcessed = FALSE]_vars

\* C18 witness: the store holds a record written by storeChatMessage whose
\* sender is not an allowed sender and which has no isProcessed attribute.
C18_Witness ==
  \E k \in Keys :
    /\ msgs[k] # NoItem
    /\ "email" \in DOMAIN msgs[k]
    /\ msgs[k].sender \notin validSenders
    /\ "isProcessed" \notin DOMAIN msgs[k]

\* A step of the orchestrator handler (the chat-send path and the
\* initialization script leave every invocation's position alone).
OrchestratorStep == pc' # pc

\* C19: a step of the orchestrator only inserts a new message, changes
\* isProcessed from false to true on an existing message, or sets
\* metadata.nextSpeakerIndex: every stored message stays in the store with
\* its sender, text, datetime and email, isProcessed never goes back to
\* false, and llmParticipants does not change.
C19_OrchestratorWritesLimited ==
  [][OrchestratorStep =>
       /\ \A k \in Keys :
            msgs[k] # NoItem =>
              \/ msgs'[k] = msgs[k]
              \/ /\ ~IsProcessed(msgs[k])
                 /\ msgs'[k] = [isProcessed |-> TRUE] @@ msgs[k]
       /\ meta' # meta =>
            /\ meta # NoItem
            /\ meta' = [meta EXCEPT !.nextSpeakerIndex = meta'.nextSpeakerIndex]]_vars

-----------------------------------------------------------------------------
(* incrementSpeakerIndex as a function of (currentIndex, participantCount) *)

\* The largest participant count for which the function is applied.
MaxCount == 7

\* A participant list of the given length.
ParticipantsOf(count) ==
  [k \in 1..count |->
     [name |-> "llm" \o ToString(k), provider |-> "google",
      personality |-> [moods |-> << "curious" >>, phrase |-> "I think..."]]]

\* Inputs of incrementSpeakerIndex: every count in 1..MaxCount and every
\* index in [0, count), as the metadata item holds them.
IncrementInit ==
  /\ \E count \in 1..MaxCount, idx \in 0..(MaxCount - 1) :
       /\ idx < count
       /\ meta = [RawMetadata(createChatMetadata(JsParticipants(ParticipantsOf(count))))
                   EXCEPT !.nextSpeakerIndex = idx]
       /\ newSpeakerIndex = idx
  /\ validateChatMetadata(JsMetadata(meta))
  /\ effects = NoEffects
  /\ msgs = << >>
  /\ now = 0
  /\ pc = << >>
  /\ chat = << >>
  /\ result = << >>
  /\ metadata = << >>
  /\ latestMessage = << >>
  /\ newMessage = << >>
  /\ chatSends = 0
  /\ lastSpeaker = 0

\* One more application of incrementSpeakerIndex to its own result, up to
\* participantCount applications.
IncrementApply ==
  LET count == Len(meta.llmParticipants)
  IN  /\ effects.indexWrites < count
      /\ ~incrementSpeakerIndexThrows(Num(newSpeakerIndex), Num(count))
      /\ newSpeakerIndex' = incrementSpeakerIndex(newSpeakerIndex, count)
      /\ effects' = [effects EXCEPT !.indexWrites = @ + 1]
      /\ UNCHANGED << msgs, meta, now, pc, metadata, latestMessage, newMessage,
                      result, chatSends, lastSpeaker, chat >>

IncrementNext == IncrementApply

IncrementSpec == IncrementInit /\ [][IncrementNext]_vars

\* C20: for every count >= 1 and idx in [0, count), incrementSpeakerIndex
\* returns (idx + 1) mod count, the successor of idx or 0 after the last
\* index, and after count applications the index is the starting idx again.
C20_IncrementIsSuccessorModCount ==
  LET count == Len(meta.llmParticipants)
      idx == meta.nextSpeakerIndex
      n == effects.indexWrites
  IN  /\ newSpeakerIndex \in 0..(count - 1)
      /\ \E q \in 0..2 : idx + n = q * count + newSpeakerIndex
      /\ n = 1 => newSpeakerIndex = (IF idx = count - 1 THEN 0 ELSE idx + 1)
      /\ n = count => newSpeakerIndex = idx

\* C20 witness: from the last index of the longest list, the first
\* application wrapped to 0 and count applications came back to the start.
C20_Witness ==
  /\ Len(meta.llmParticipants) = MaxCount
  /\ meta.nextSpeakerIndex = MaxCount - 1
  /\ effects.indexWrites = MaxCount
  /\ newSpeakerIndex = MaxCount - 1

-----------------------------------------------------------------------------
(* The speaker selector functions on arbitrary arguments *)

\* A call that has not been made yet.
NoCall == [called |-> FALSE]

\* The values an index or a count argument is drawn from: missing, a
\* string, NaN, and the integers from -1.
NumberArguments == {Undefined, Str("1"), NaN} \cup {Num(n) : n \in Numbers}

\* The values llmParticipants is drawn from: missing, not an array, empty,
\* and the first one, two or three participants.
ParticipantListArguments ==
  {Undefined, Str("gemini"), Arr(<< >>)} \cup
  {JsParticipants(SubSeq(llmParticipants, 1, k)) : k \in 1..Len(llmParticipants)}

\* The values getNextSpeaker is called with.
MetadataArguments ==
  {Undefined, Null} \cup
  {[id |-> Str("chat"), datetime |-> Num(0), llmParticipants |-> l,
    nextSpeakerIndex |-> x] : l \in ParticipantListArguments, x \in NumberArguments}

\* incrementSpeakerIndex(currentIndex, participantCount) on any arguments:
\* it throws, or returns (currentIndex + 1) % participantCount, which is
\* NaN when an argument is.
incrementSpeakerIndexCall(currentIndex, participantCount) ==
  IF incrementSpeakerIndexThrows(currentIndex, participantCount)
  THEN Thrown
  ELSE IF currentIndex = NaN \/ participantCount = NaN
       THEN NaN
       ELSE Num(incrementSpeakerIndex(currentIndex.num, participantCount.num))

SelectorInit ==
  /\ metadata \in MetadataArguments
  /\ newSpeakerIndex \in [currentIndex : NumberArguments,
                          participantCount : NumberArguments]
  /\ result = [getNextSpeaker |-> NoCall, incrementSpeakerIndex |-> NoCall]
  /\ msgs = << >>
  /\ meta = NoItem
  /\ now = 0
  /\ pc = << >>
  /\ chat = << >>
  /\ latestMessage = << >>
  /\ newMessage = << >>
  /\ effects = << >>
  /\ chatSends = 0
  /\ lastSpeaker = 0

\* const currentSpeaker = getNextSpeaker(metadata).
CallGetNextSpeaker ==
  /\ result.getNextSpeaker = NoCall
  /\ result' = [result EXCEPT !.getNextSpeaker = getNextSpeaker(metadata)]
  /\ UNCHANGED << msgs, meta, now, pc, locals, effects, chatSends, lastSpeaker, chat >>

\* incrementSpeakerIndex(currentIndex, participantCount).
CallIncrementSpeakerIndex ==
  /\ result.incrementSpeakerIndex = NoCall
  /\ result' = [result EXCEPT !.incrementSpeakerIndex =
       incrementSpeakerIndexCall(newSpeakerIndex.currentIndex,
                                 newSpeakerIndex.participantCount)]
  /\ UNCHANGED << msgs, meta, now, pc, locals, effects, chatSends, lastSpeaker, chat >>

SelectorNext == CallGetNextSpeaker \/ CallIncrementSpeakerIndex

SelectorSpec == SelectorInit /\ [][SelectorNext]_vars

\* The metadata has a non-empty participant array and an integer index >= 0.
SelectableMetadata ==
  /\ metadata \notin {Undefined, Null}
  /\ metadata.llmParticipants \notin {Undefined, Str("gemini"), Arr(<< >>)}
  /\ metadata.nextSpeakerIndex \in {Num(n) : n \in 0..MaxNumber}

\* C21: getNextSpeaker returns llmParticipants[nextSpeakerIndex mod length]:
\* with 3 participants the indices 0, 1, 2 give participants 0, 1, 2 and the
\* out-of-range index 3 gives participant 0 instead of failing.
C21_GetNextSpeakerIsIndexModLength ==
  (result.getNextSpeaker # NoCall /\ SelectableMetadata) =>
    LET participants == metadata.llmParticipants.array
        index == metadata.nextSpeakerIndex.num
    IN  /\ result.getNextSpeaker # Thrown
        /\ \E q \in 0..MaxNumber, r \in 0..(Len(participants) - 1) :
             /\ index = q * Len(participants) + r
             /\ result.getNextSpeaker = participants[r + 1]
        /\ (Len(participants) = 3 /\ index \in 0..2) =>
             result.getNextSpeaker = JsParticipant(llmParticipants[index + 1])
        /\ (Len(participants) = 3 /\ index = 3) =>
             result.getNextSpeaker = JsParticipant(llmParticipants[1])

\* C21 witness: with 3 participants and index 3 the call returned
\* participant 0.
C21_Witness ==
  /\ SelectableMetadata
  /\ Len(metadata.llmParticipants.array) = 3
  /\ metadata.nextSpeakerIndex = Num(3)
  /\ result.getNextSpeaker = JsParticipant(llmParticipants[1])

-----------------------------------------------------------------------------
(* The entity functions of models/chatMetadata.js on arbitrary arguments *)

\* The message objects the functions are given: every combination of these
\* values of the six fields, and values that are not objects.
MessageArguments ==
  {Undefined, Null, Str("chat")} \cup
  [id : {Str("chat"), Str("other"), Undefined},
   datetime : {Undefined, Str("5"), NaN, Num(-1), Num(0), Num(1), Num(MaxNumber)},
   sender : {Str(s) : s \in validSenders} \cup {Str("robot"), Undefined},
   message : {Str("hi"), Str(""), Undefined, Num(1)},
   isProcessed : {Bool(TRUE), Bool(FALSE), Undefined, Str("false")},
   email : {Undefined, Null, Num(1), Str(""), Str("alice@example.com")}]

\* The wire records deserializeChatMessage is given.
MessageItemArguments ==
  {Undefined, Null} \cup
  [id : {Undefined, [S |-> Str("chat")], [S |-> Str("")], [S |-> Str("other")]},
   datetime : {Undefined, [N |-> Str("0")], [N |-> Str("5")], [N |-> Str("-1")],
               [N |-> Str("abc")]},
   sender : {Undefined, [S |-> Str("user")], [S |-> Str("gemini")], [S |-> Str("robot")]},
   message : {Undefined, [S |-> Str("hi")], [S |-> Str("")]},
   isProcessed : {Undefined, [BOOL |-> Bool(TRUE)], [BOOL |-> Bool(FALSE)],
                  [S |-> Str("true")]},
   email : {Undefined, [S |-> Str("")], [S |-> Str("alice@example.com")]}]

\* The arguments createChatMessage is given.
CreateMessageArguments ==
  [sender : {Str(s) : s \in validSenders} \cup {Str("robot"), Undefined},
   messageContent : {Str("hi"), Str(""), Undefined},
   email : {Undefined, Null, Str(""), Str("alice@example.com")}]

\* The participant objects the functions are given.
ParticipantArguments ==
  {Undefined, Null} \cup
  [name : {Str("gemini"), Str("claude"), Str(""), Undefined},
   provider : {Str(p) : p \in validProviders} \cup {Str("meta"), Undefined},
   personality :
     {Undefined, Null} \cup
     [moods : {Undefined, Arr(<< >>), Arr(<< Str("curious") >>),
               Arr(<< Str("curious"), Str("helpful") >>)},
      phrase : {Str("I think..."), Str(""), Undefined}]]

\* The participants the lists of the metadata arguments are made of: two
\* valid ones, a second one named gemini, and one of an unknown provider.
ListedParticipants ==
  {JsParticipant(llmParticipants[1]), JsParticipant(llmParticipants[2]),
   [JsParticipant(llmParticipants[3]) EXCEPT !.name = Str("gemini")],
   [JsParticipant(llmParticipants[3]) EXCEPT !.provider = Str("meta")],
   [JsParticipant(llmParticipants[2]) EXCEPT !.name = Str("mistral")]}

\* The longest participant list of a metadata argument.
MaxParticipants == 3

\* The values of llmParticipants of the metadata arguments.
ParticipantLists ==
  {Undefined, Arr(<< >>)} \cup
  {Arr(l) : l \in UNION {[1..n -> ListedParticipants] : n \in 1..MaxParticipants}}

\* The metadata objects the functions are given.
ChatMetadataArguments ==
  {Undefined, Null} \cup
  [id : {Str("chat"), Str("other")},
   datetime : {Num(0), Num(1), Undefined},
   llmParticipants : ParticipantLists,
   nextSpeakerIndex : NumberArguments]

\* The participant attribute values of the wire records: two well-formed
\* ones, one of an unknown provider and one without a name.
ListedParticipantItems ==
  {serializeParticipant(JsParticipant(llmParticipants[1])),
   serializeParticipant(JsParticipant(llmParticipants[2])),
   [M |-> [serializeParticipant(JsParticipant(llmParticipants[3])).M
            EXCEPT !.provider = [S |-> Str("meta")]]],
   [M |-> [serializeParticipant(JsParticipant(llmParticipants[3])).M
            EXCEPT !.name = Undefined]]}

\* The wire records deserializeChatMetadata is given.
MetadataItemArguments ==
  {Undefined, Null} \cup
  [id : {Undefined, [S |-> Str("chat")], [S |-> Str("other")]},
   datetime : {Undefined, [N |-> Str("0")], [N |-> Str("1")]},
   llmParticipants :
     {Undefined, [L |-> Str("gemini")], [L |-> Arr(<< >>)]} \cup
     {[L |-> Arr(l)] :
        l \in UNION {[1..n -> ListedParticipantItems] : n \in 1..MaxParticipants}},
   nextSpeakerIndex : {Undefined, [N |-> Str("abc")]} \cup
                      {[N |-> String(Num(n))] : n \in Numbers}]

\* The arguments of each function: which entity it is about and what it is
\* given.
EntityArguments ==
  [entity : {"message"}, given : MessageArguments] \cup
  [entity : {"messageItem"}, given : MessageItemArguments] \cup
  [entity : {"createMessage"}, given : CreateMessageArguments] \cup
  [entity : {"participant"}, given : ParticipantArguments] \cup
  [entity : {"metadata"}, given : ChatMetadataArguments] \cup
  [entity : {"metadataItem"}, given : MetadataItemArguments] \cup
  [entity : {"createMetadata"}, given : ParticipantLists]

\* The validator of an entity: returns nothing or throws.
Validate(entity, given) ==
  LET ok == CASE entity = "message" -> validateChatMessage(given)
              [] entity = "participant" -> validateParticipant(given)
              [] entity = "metadata" -> validateChatMetadata(given)
  IN  IF ok THEN Undefined ELSE Thrown

\* The serializer of an entity.
Serialize(entity, given) ==
  CASE entity = "message" -> serializeChatMessage(given)
    [] entity = "participant" -> serializeParticipant(given)
    [] entity = "metadata" -> serializeChatMetadata(given)

\* The deserializer of an entity or of its wire record.
Deserialize(entity, item) ==
  CASE entity \in {"message", "messageItem"} -> deserializeChatMessage(item)
    [] entity = "participant" -> deserializeParticipant(item)
    [] entity \in {"metadata", "metadataItem"} -> deserializeChatMetadata(item)

EntityInit ==
  /\ metadata \in EntityArguments
  /\ result = [validate |-> NoCall, serialize |-> NoCall, deserialize |-> NoCall,
               create |-> NoCall]
  /\ now \in {1, MaxNumber}
  /\ msgs = << >>
  /\ meta = NoItem
  /\ pc = << >>
  /\ chat = << >>
  /\ latestMessage = << >>
  /\ newMessage = << >>
  /\ newSpeakerIndex = << >>
  /\ effects = << >>
  /\ chatSends = 0
  /\ lastSpeaker = 0

\* validateChatMessage / validateParticipant / validateChatMetadata.
ValidateEntity ==
  /\ metadata.entity \in {"message", "participant", "metadata"}
  /\ result.validate = NoCall
  /\ result' = [result EXCEPT !.validate = Validate(metadata.entity, metadata.given)]
  /\ UNCHANGED << msgs, meta, now, pc, locals, effects, chatSends, lastSpeaker, chat >>

\* serializeChatMessage / serializeParticipant / serializeChatMetadata.
SerializeEntity ==
  /\ metadata.entity \in {"message", "participant", "metadata"}
  /\ result.serialize = NoCall
  /\ result' = [result EXCEPT !.serialize = Serialize(metadata.entity, metadata.given)]
  /\ UNCHANGED << msgs, meta, now, pc, locals, effects, chatSends, lastSpeaker, chat >>

\* deserializeChatMessage / deserializeParticipant / deserializeChatMetadata
\* of the wire record given, or of the one the serializer returned.
DeserializeRecord ==
  /\ result.deserialize = NoCall
  /\ \/ /\ metadata.entity \in {"messageItem", "metadataItem"}
        /\ result' = [result EXCEPT !.deserialize =
             Deserialize(metadata.entity, metadata.given)]
     \/ /\ metadata.entity \in {"message", "participant", "metadata"}
        /\ result.serialize \notin {NoCall, Thrown}
        /\ result' = [result EXCEPT !.deserialize =
             Deserialize(metadata.entity, result.serialize)]
  /\ UNCHANGED << msgs, meta, now, pc, locals, effects, chatSends, lastSpeaker, chat >>

\* createChatMessage(sender, messageContent, email) / createChatMetadata(list).
CreateEntity ==
  /\ metadata.entity \in {"createMessage", "createMetadata"}
  /\ result.create = NoCall
  /\ result' = [result EXCEPT !.create =
       IF metadata.entity = "createMessage"
       THEN createChatMessage(metadata.given.sender, metadata.given.messageContent,
                              metadata.given.email, now)
       ELSE createChatMetadata(metadata.given)]
  /\ UNCHANGED << msgs, meta, now, pc, locals, effects, chatSends, lastSpeaker, chat >>

EntityNext == ValidateEntity \/ SerializeEntity \/ DeserializeRecord \/ CreateEntity

EntitySpec == EntityInit /\ [][EntityNext]_vars

-----------------------------------------------------------------------------
(* Round trips, validation and constructors of the entities *)

\* A message that is valid in the sense of the message schema: the fixed id,
\* a positive timestamp, an allowed sender, a non-empty text, a boolean
\* isProcessed, and an email that is absent or a string, the empty one included.
ValidMessage(m) ==
  /\ m \in MessageArguments
  /\ typeof(m) = "object" /\ m # Null
  /\ m.id = Str("chat")
  /\ \E n \in 1..MaxNumber : m.datetime = Num(n)
  /\ \E s \in validSenders : m.sender = Str(s)
  /\ typeof(m.message) = "string" /\ m.message # Str("")
  /\ typeof(m.isProcessed) = "boolean"
  /\ (m.email = Undefined \/ typeof(m.email) = "string")

\* C23: for every valid message m, deserializeChatMessage(serializeChatMessage(m))
\* is a message equal to m, with an email, the empty string included, kept and
\* an absent email left absent.
C23_MessageRoundTrip ==
  (/\ metadata.entity = "message"
   /\ ValidMessage(metadata.given)
   /\ result.deserialize # NoCall)
  => result.deserialize = metadata.given

\* A valid message was serialized and deserialized.
C23_Witness ==
  /\ metadata.entity = "message"
  /\ ValidMessage(metadata.given)
  /\ metadata.given.email = Str("")
  /\ result.deserialize # NoCall

\* A participant that is valid in the sense of the participant schema.
ValidParticipant(p) ==
  /\ p \in ParticipantArguments \cup ListedParticipants
  /\ typeof(p) = "object" /\ p # Null
  /\ \E v \in validProviders : p.provider = Str(v)
  /\ typeof(p.name) = "string" /\ p.name # Str("")
  /\ typeof(p.personality) = "object" /\ p.personality # Null
  /\ IsArray(p.personality.moods) /\ Len(p.personality.moods.array) >= 1
  /\ typeof(p.personality.phrase) = "string" /\ p.personality.phrase # Str("")

\* A metadata record that is valid in the sense of the metadata schema: the
\* fixed key, a non-empty list of valid participants and an index into it.
ValidMetadata(d) ==
  /\ d \in ChatMetadataArguments
  /\ typeof(d) = "object" /\ d # Null
  /\ d.id = Str("chat")
  /\ d.datetime = Num(0)
  /\ IsArray(d.llmParticipants) /\ Len(d.llmParticipants.array) >= 1
  /\ \A k \in 1..Len(d.llmParticipants.array) :
       ValidParticipant(d.llmParticipants.array[k])
  /\ \E n \in 0..(Len(d.llmParticipants.array) - 1) : d.nextSpeakerIndex = Num(n)

\* C24: deserializeChatMetadata(serializeChatMetadata(d)) = d for every valid
\* metadata record d, the order of llmParticipants and nextSpeakerIndex kept,
\* and deserializeParticipant(serializeParticipant(p)) = p for every valid
\* participant p.
C24_MetadataAndParticipantRoundTrip ==
  /\ (/\ metadata.entity = "metadata"
      /\ ValidMetadata(metadata.given)
      /\ result.deserialize # NoCall)
     => result.deserialize = metadata.given
  /\ (/\ metadata.entity = "participant"
      /\ ValidParticipant(metadata.given)
      /\ result.deserialize # NoCall)
     => result.deserialize = metadata.given

\* A metadata record of three participants with the index on the last one
\* was serialized and deserialized.
C24_Witness ==
  /\ metadata.entity = "metadata"
  /\ ValidMetadata(metadata.given)
  /\ Len(metadata.given.llmParticipants.array) = MaxParticipants
  /\ metadata.given.llmParticipants.array[1] # metadata.given.llmParticipants.array[2]
  /\ metadata.given.nextSpeakerIndex = Num(MaxParticipants - 1)
  /\ result.deserialize = metadata.given

\* C25: deserializeChatMessage and deserializeChatMetadata never return an
\* entity that fails validation: a wire record of a sender outside the
\* allowed set, of datetime 0 or of an index past the list makes them fail.
C25_DeserializedEntitiesValid ==
  (/\ metadata.entity \in {"messageItem", "metadataItem"}
   /\ result.deserialize \notin {NoCall, Thrown})
  => IF metadata.entity = "messageItem"
     THEN validateChatMessage(result.deserialize)
     ELSE validateChatMetadata(result.deserialize)

\* deserializeChatMessage returned the message of a wire record whose sender
\* is 'robot'.
C25_Witness ==
  /\ metadata.entity = "messageItem"
  /\ result.deserialize \notin {NoCall, Thrown}
  /\ result.deserialize.sender = Str("robot")

\* C26: serializeChatMessage, serializeParticipant and serializeChatMetadata
\* fail, producing no wire record, when the entity fails validation.
C26_SerializersValidateFirst ==
  (/\ metadata.entity \in {"message", "participant", "metadata"}
   /\ result.serialize # NoCall
   /\ Validate(metadata.entity, metadata.given) = Thrown)
  => result.serialize = Thrown

\* Each serializer was given an entity that fails validation.
C26_Witness ==
  /\ metadata.entity = "message"
  /\ metadata.given \notin {Undefined, Null, Str("chat")}
  /\ metadata.given.sender = Str("robot")
  /\ \E n \in 1..MaxNumber : metadata.given.datetime = Num(n)
  /\ result.serialize = Thrown

\* The arguments of createChatMessage that make a valid message.
ValidCreateMessageArguments(a) ==
  /\ \E s \in validSenders : a.sender = Str(s)
  /\ typeof(a.messageContent) = "string" /\ a.messageContent # Str("")
  /\ (a.email = Undefined \/ typeof(a.email) = "string")

\* The participant lists that make a valid metadata record.
ValidCreateMetadataArguments(list) ==
  /\ IsArray(list) /\ Len(list.array) >= 1
  /\ \A k \in 1..Len(list.array) : ValidParticipant(list.array[k])

\* C27: createChatMessage(sender, content, email) returns a message of id
\* 'chat', isProcessed false, datetime the current time, and email present
\* exactly when supplied; createChatMetadata(list) returns a record of
\* datetime 0 and nextSpeakerIndex 0; each fails instead of returning when
\* the entity it built is invalid.
C27_ConstructorsDefaultAndValidate ==
  /\ (metadata.entity = "createMessage" /\ result.create # NoCall)
     => IF ValidCreateMessageArguments(metadata.given)
        THEN result.create =
               [id |-> Str("chat"), datetime |-> Num(now),
                sender |-> metadata.given.sender,
                message |-> metadata.given.messageContent,
                isProcessed |-> Bool(FALSE), email |-> metadata.given.email]
        ELSE result.create = Thrown
  /\ (metadata.entity = "createMetadata" /\ result.create # NoCall)
     => IF ValidCreateMetadataArguments(metadata.given)
        THEN result.create =
               [id |-> Str("chat"), datetime |-> Num(0),
                llmParticipants |-> metadata.given, nextSpeakerIndex |-> Num(0)]
        ELSE result.create = Thrown

\* createChatMessage returned a message with the email supplied and the
\* current time.
C27_Witness ==
  /\ metadata.entity = "createMessage"
  /\ metadata.given.email = Str("alice@example.com")
  /\ result.create \notin {NoCall, Thrown}
  /\ result.create.datetime = Num(now)

\* C28: validateChatMessage accepts a record exactly when its id is 'chat',
\* its datetime is a number greater than 0, its sender is in the allowed
\* set, its message is a non-empty string, its isProcessed is a boolean and
\* its email is absent or a string.
C28_ValidateChatMessageExact ==
  (metadata.entity = "message" /\ result.validate # NoCall)
  => (result.validate = Undefined <=> ValidMessage(metadata.given))

\* validateChatMessage was given a message whose datetime is NaN and whose
\* other fields are valid.
C28_Witness ==
  /\ metadata.entity = "message"
  /\ metadata.given \notin {Undefined, Null, Str("chat")}
  /\ metadata.given.datetime = NaN
  /\ ValidMessage([metadata.given EXCEPT !.datetime = Num(1)])
  /\ result.validate # NoCall

\* The metadata records the validator must reject: an index that is negative
\* or not below the number of participants, an empty list, a datetime other
\* than 0, or a participant that fails validateParticipant.
MetadataToReject(d) ==
  /\ d \notin {Undefined, Null}
  /\ \/ typeof(d.nextSpeakerIndex) = "number" /\ NumLess(d.nextSpeakerIndex, 0)
     \/ /\ IsArray(d.llmParticipants)
        /\ typeof(d.nextSpeakerIndex) = "number"
        /\ NumAtLeast(d.nextSpeakerIndex, Len(d.llmParticipants.array))
     \/ d.llmParticipants = Arr(<< >>)
     \/ d.datetime # Num(0)
     \/ /\ IsArray(d.llmParticipants)
        /\ \E k \in 1..Len(d.llmParticipants.array) :
             ~validateParticipant(d.llmParticipants.array[k])

\* C29: validateChatMetadata rejects, and does not clamp, a nextSpeakerIndex
\* that is negative or at least the number of participants, an empty
\* llmParticipants, a datetime other than 0 and any invalid participant.
C29_ValidateChatMetadataRejects ==
  (/\ metadata.entity = "metadata"
   /\ result.validate # NoCall
   /\ MetadataToReject(metadata.given))
  => result.validate = Thrown

\* validateChatMetadata was given three valid participants and the index 5,
\* and nothing else wrong.
C29_Witness ==
  /\ metadata.entity = "metadata"
  /\ metadata.given \notin {Undefined, Null}
  /\ metadata.given.nextSpeakerIndex = Num(MaxNumber)
  /\ ValidMetadata([metadata.given EXCEPT !.nextSpeakerIndex = Num(0)])
  /\ Len(metadata.given.llmParticipants.array) = MaxParticipants
  /\ result.validate = Thrown

\* Two participants of the list have the same name.
DuplicateNames(list) ==
  /\ IsArray(list)
  /\ \E j, k \in 1..Len(list.array) :
       /\ j < k
       /\ Get(list.array[j], "name") = Get(list.array[k], "name")

\* C30: validateChatMetadata rejects a llmParticipants list in which two
\* participants have the same name.
C30_DuplicateNamesRejected ==
  (/\ metadata.entity = "metadata"
   /\ result.validate # NoCall
   /\ metadata.given \notin {Undefined, Null}
   /\ DuplicateNames(metadata.given.llmParticipants))
  => result.validate = Thrown

\* validateChatMetadata was given a list with two participants named gemini
\* and nothing else wrong.
C30_Witness ==
  /\ metadata.entity = "metadata"
  /\ ValidMetadata(metadata.given)
  /\ DuplicateNames(metadata.given.llmParticipants)
  /\ result.validate # NoCall

----------------------------------------------------------------------------
(* parseOrchestratorResponse on arbitrary response texts *)

ParserInit ==
  /\ newMessage \in ResponseTexts
  /\ result = NoCall
  /\ metadata = << >>
  /\ now = 0
  /\ msgs = << >>
  /\ meta = NoItem
  /\ pc = << >>
  /\ chat = << >>
  /\ latestMessage = << >>
  /\ newSpeakerIndex = << >>
  /\ effects = << >>
  /\ chatSends = 0
  /\ lastSpeaker = 0

\* getOrchestratorDecision: parseOrchestratorResponse(text) on the text of
\* the model's response.
CallParseOrchestratorResponse ==
  /\ result = NoCall
  /\ result' = parseOrchestratorResponse(newMessage)
  /\ UNCHANGED << msgs, meta, now, pc, locals, effects, chatSends, lastSpeaker, chat >>

ParserNext == CallParseOrchestratorResponse

ParserSpec == ParserInit /\ [][ParserNext]_vars

\* C31: parseOrchestratorResponse returns {action: 'RESPOND'} or
\* {action: 'WAIT'}, the upper-cased action of the object in the text, or
\* fails; it fails when the text holds no object and when the action of the
\* object is not one of the two values, so it returns no other action.
C31_ParserReturnsRespondOrWaitOrFails ==
  result # NoCall =>
    /\ result \in {Thrown, [action |-> Str("RESPOND")], [action |-> Str("WAIT")]}
    /\ (\A k \in 1..Len(newMessage) : newMessage[k] \notin MemberTokens)
         => result = Thrown
    /\ LET jsonStr == IF objectMatch(Unfenced(newMessage)).matched
                      THEN objectMatch(Unfenced(newMessage)).match
                      ELSE Unfenced(newMessage)
           decision == JSONparse(jsonStr)
       IN  /\ decision = Thrown => result = Thrown
           /\ decision # Thrown =>
                IF Get(decision, "action") \in {Str("RESPOND"), Str("respond"),
                                                Str("WAIT"), Str("wait")}
                THEN result = [action |-> Str(toUpperCase(decision.action.str))]
                ELSE result = Thrown

\* The parser returned WAIT for a text whose object says "wait", and words
\* surround the object.
C31_Witness ==
  /\ result = [action |-> Str("WAIT")]
  /\ newMessage = << "x", "{", "action:wait", "}", "x" >>

\* The first {...} of the text the parser looks in is an object.
HasFirstObject(responseText) ==
  /\ FirstObject(Unfenced(responseText)).matched
  /\ JSONparse(FirstObject(Unfenced(responseText)).match) # Thrown

\* C32: parseOrchestratorResponse takes the first {...} object that appears
\* in the response text, code fences removed, and decides from it, also when
\* other text or further braces follow the object.
C32_ParserDecidesFromFirstObject ==
  (result # NoCall /\ HasFirstObject(newMessage)) =>
    LET decision == JSONparse(FirstObject(Unfenced(newMessage)).match)
    IN  IF isValidOrchestratorDecision(decision)
        THEN result = [action |-> Str(toUpperCase(decision.action.str))]
        ELSE result = Thrown

\* The parser was given an object followed by another object.
C32_Witness ==
  /\ result # NoCall
  /\ newMessage = << "{", "action:RESPOND", "}", " ",
                     "{", "reason:x", "}" >>

\* C33: no invocation of the orchestrator ends with 'Unexpected orchestrator
\* decision': every decision that reaches the dispatch on the action is
\* RESPOND or WAIT.
C33_UnexpectedDecisionUnreachable ==
  /\ \A i \in Invocations : result[i] # UnexpectedResult
  /\ DecisionOutcomes \subseteq {"RESPOND", "WAIT", "throw"}

\* A response text with another action was given to the Decision Engine,
\* and an invocation went past the decision.
C33_Witness ==
  /\ << "{", "action:MAYBE", "}" >> \in ResponseTexts
  /\ \E i \in Invocations : pc[i] \in {"mark", "generate"}

----------------------------------------------------------------------------
(* The dialogue as a whole: processing, rotation, keys *)

\* Message k is superseded and unprocessed, and no invocation in flight has
\* read it as the latest message.
LeftBehind(k) ==
  /\ msgs[k] # NoItem
  /\ ~IsProcessed(msgs[k])
  /\ MaxKey(msgs) > k
  /\ \A i \in Invocations :
       "datetime" \in DOMAIN latestMessage[i] => latestMessage[i].datetime # k

\* C34: with ticks that keep firing and calls that eventually succeed, and
\* the metadata present, every message stored (before the last reading of
\* the clock) is eventually marked isProcessed = true, also one that is
\* followed by another message before the next tick reads it.
C34_EveryMessageEventuallyProcessed ==
  \A k \in 1..(MaxTime - 1) :
    (meta # NoItem /\ msgs[k] # NoItem) ~> IsProcessed(msgs[k])

\* A message is left behind: a later message is the latest item and no
\* invocation holds the earlier one.
C34_Witness ==
  \E k \in 1..(MaxTime - 1) :
    /\ LeftBehind(k)
    /\ \A i \in Invocations : pc[i] \in {"idle", "done"}

\* C35: under any interleaving of the invocations, every committed AI
\* message advances the stored index by one, nextSpeakerIndex' =
\* (nextSpeakerIndex + 1) mod N, so the index counts the committed AI
\* messages; and with N > 1 the AI message committed is never from the
\* participant of the AI message committed before it.
C35_IndexCountsCommittedMessages ==
  [][\A i \in Invocations :
       CommitReturns(i) /\ result'[i].action = "RESPOND" =>
         LET count == Len(meta.llmParticipants)
         IN  /\ meta'.nextSpeakerIndex = (meta.nextSpeakerIndex + 1) % count
             /\ (count > 1 /\ lastSpeaker # 0) => lastSpeaker' # lastSpeaker]_vars

\* Two AI messages next to each other in the conversation are from the same
\* participant of a conversation with more than one participant.
C35_Witness ==
  /\ meta # NoItem
  /\ Len(meta.llmParticipants) > 1
  /\ \E k1 \in Keys, k2 \in Keys :
       /\ k1 < k2
       /\ IsAiMessage(msgs[k1])
       /\ IsAiMessage(msgs[k2])
       /\ msgs[k1].sender = msgs[k2].sender
       /\ \A k \in Keys : (k1 < k /\ k < k2) => msgs[k] = NoItem

\* C36: no two messages share a datetime key, so no step writes a message
\* over an existing one: an item of the store keeps its content (at most
\* its isProcessed flag is set), also when several writes happen in the
\* same millisecond.
C36_NoWriteOverwritesMessage ==
  [][\A k \in DOMAIN msgs :
       msgs[k] # NoItem =>
         \/ msgs'[k] = msgs[k]
         \/ msgs'[k] = [isProcessed |-> TRUE] @@ msgs[k]]_vars

\* A chat-send request in flight has stored the responses of two
\* personalities and the store holds only one of them.
C36_Witness ==
  \E r \in Requests :
    /\ pc[r] = "respond"
    /\ \E p1 \in Personalities, p2 \in Personalities :
         /\ chat[r].personas[p1] = "stored"
         /\ chat[r].personas[p2] = "stored"
         /\ \E k \in DOMAIN msgs : msgs[k] # NoItem /\ msgs[k].sender = p1
         /\ \A k \in DOMAIN msgs : msgs[k] # NoItem => msgs[k].sender # p2

\* C37: for every metadata validateChatMetadata accepts, the message of a
\* RESPOND can be built for each participant: createChatMessage, called as
\* the handler calls it with the participant's name as the sender and the
\* generated text, does not throw.
C37_AcceptedParticipantsCanSend ==
  (/\ metadata.entity = "metadata"
   /\ result.validate \notin {NoCall, Thrown})
  => \A k \in 1..Len(metadata.given.llmParticipants.array) :
       createChatMessage(Get(metadata.given.llmParticipants.array[k], "name"),
                         Str("hi"), Undefined, now) # Thrown

\* Metadata that was accepted and lists a participant whose name is not one
\* of the senders of a ChatMessage.
C37_Witness ==
  /\ metadata.entity = "metadata"
  /\ result.validate \notin {NoCall, Thrown}
  /\ \E k \in 1..Len(metadata.given.llmParticipants.array) :
       metadata.given.llmParticipants.array[k].name = Str("mistral")

PipelineFailed(r) ==
  /\ pc[r] = "respond"
  /\ pc'[r] = "done"
  /\ result'[r].statusCode # 200

\* Request q runs its rate-limit check after request r was answered 500,
\* at a reading of the clock less than 60 seconds after the user message of
\* r: after a user message the store holds or, when r failed in the
\* generation (so after its store), after the first reading of the clock,
\* which no message precedes. All requests are of one sender.
RetryWithinDelay(q, r) ==
  /\ pc[q] = "check"
  /\ pc'[q] # "check"
  /\ pc[r] = "done"
  /\ result[r].statusCode = 500
  /\ \/ /\ result[r] = chatSendCatch(ProviderError)
        /\ now' - (delayRequired * MsPerSecond - 1) < delayRequired * MsPerSecond
     \/ \E k \in UserMessageKeys(chat[q].email) :
          now' - k < delayRequired * MsPerSecond

\* C39: when the generation or the store of an AI response fails after the
\* user message was stored, the handler returns 500 and the user message is
\* still in the store; and the rate-limit check of a retry of the same
\* sender less than 60 seconds after that message denies it with 429.
C39_FailedSendStillCounts ==
  [][\A r \in Requests :
       /\ PipelineFailed(r) =>
            /\ result'[r].statusCode = 500
            /\ msgs' = msgs
            /\ UserMessageKeys(chat[r].email) # {}
       /\ \A q \in Requests \ {r} :
            RetryWithinDelay(q, r) =>
              \/ result'[q].statusCode = 429
              \/ result'[q] = chatSendCatch(StoreError)]_vars

\* One request failed in the generation and was answered 500, no user
\* message is in the store, and the retry has passed its rate-limit check
\* less than 60 seconds after the first reading of the clock.
C39_Witness ==
  \E r \in Requests, q \in Requests :
    /\ result[r] = chatSendCatch(ProviderError)
    /\ UserMessageKeys("alice@example.com") = {}
    /\ pc[q] = "store"
    /\ chat[q].messageDelayCheck = [canSend |-> TRUE]
    /\ now - (delayRequired * MsPerSecond - 1) < delayRequired * MsPerSecond

----------------------------------------------------------------------------
(* The handler that serves /init-chat: routing, authorization, chat-send *)

\* event.requestContext.http.method of the requests.
Methods == {"OPTIONS", "POST"}

\* event.rawPath of the requests.
RawPaths == {"/init-chat", "/prod/init-chat", "/news", "/getchat", "/"}

\* event.rawPath === "/init-chat" || event.rawPath.endsWith("/init-chat").
isInitChatPath(rawPath) == rawPath \in {"/init-chat", "/prod/init-chat"}

\* event.headers.Authorization of the requests: none, another scheme, a
\* bearer token Google issued to the sender, a bearer token it did not.
AuthorizationHeaders == {"absent", "Basic dXNlcg==", "Bearer issued", "Bearer forged"}

\* !authHeader || !authHeader.startsWith("Bearer ").
missingBearer(authHeader) == authHeader \notin {"Bearer issued", "Bearer forged"}

\* event.body of the requests: not JSON, a JSON array, objects without
\* userInput or without userName, and a message.
RequestBodies == {"not json", "[]", "{}", "{userInput}", "{userInput,userName}"}

\* The events the handler is invoked with.
Events ==
  [method : Methods, rawPath : RawPaths, authorization : AuthorizationHeaders,
   body : RequestBodies]

\* The event and the locals of a request in flight before verifyAccessToken
\* has resolved: no tokenInfo.
RequestLocals(event) ==
  [email |-> "-", messageDelayCheck |-> NoCheck,
   personas |-> [p \in Personalities |-> "unchosen"],
   event |-> event, tokenInfo |-> "none"]

\* The request's bearer token has been verified: tokenInfo is assigned.
TokenVerified(r) ==
  /\ "tokenInfo" \in DOMAIN chat[r]
  /\ chat[r].tokenInfo = "verified"

\* The answers of the handler that carry a status only.
Answer(statusCode, error) == [statusCode |-> statusCode, error |-> error]

\* initializeChatSystem's catch: process.exit(1), the handler never answers.
ProcessExit == [statusCode |-> 0, error |-> "process.exit(1)"]

\* The body checks before verifyAccessToken; NoResult when they pass.
BodyChecks(body) ==
  CASE body = "not json" -> Answer(400, "Invalid JSON payload")
    [] body = "[]" -> Answer(400, "Request body must be a JSON object")
    [] OTHER -> NoResult

\* The field checks of a message submission; NoResult when they pass.
FieldChecks(body) ==
  CASE body = "{}" -> Answer(400, "Missing userInput in request body")
    [] body = "{userInput}" -> Answer(400, "Missing userName in request body")
    [] OTHER -> NoResult

\* exports.handler up to its first await: the preflight answer, the
\* /init-chat route, the Authorization header, the body.
HandlerEntry(r) ==
  /\ pc[r] = "idle"
  /\ \E event \in Events :
       IF event.method = "OPTIONS"
       THEN ChatReturn(r, [statusCode |-> 200, body |-> ""])
       ELSE IF isInitChatPath(event.rawPath)
       THEN /\ pc' = [pc EXCEPT ![r] = "init"]
            /\ chat' = [chat EXCEPT ![r] = RequestLocals(event)]
            /\ UNCHANGED result
       ELSE IF missingBearer(event.authorization)
       THEN ChatReturn(r, Answer(401, "Missing or invalid Authorization header"))
       ELSE IF BodyChecks(event.body) # NoResult
       THEN ChatReturn(r, BodyChecks(event.body))
       ELSE /\ pc' = [pc EXCEPT ![r] = "verify"]
            /\ chat' = [chat EXCEPT ![r] = RequestLocals(event)]
            /\ UNCHANGED result
  /\ UNCHANGED << msgs, meta, now, locals, effects, chatSends, lastSpeaker >>

\* await verifyAccessToken(accessToken): rejects for a token that was not
\* issued (or when the token endpoint fails); on success the routes /news
\* and /getchat, the field checks, and then the rate-limit check.
VerifyToken(r) ==
  /\ pc[r] = "verify"
  /\ \/ /\ chat[r].event.authorization = "Bearer forged"
        /\ ChatThrow(r, TokenError)
     \/ ChatThrow(r, NetworkError)
     \/ /\ chat[r].event.authorization = "Bearer issued"
        /\ IF chat[r].event.rawPath = "/news"
           THEN /\ pc' = [pc EXCEPT ![r] = "news"]
                /\ chat' = [chat EXCEPT ![r].tokenInfo = "verified"]
                /\ UNCHANGED result
           ELSE IF chat[r].event.rawPath = "/getchat"
           THEN /\ pc' = [pc EXCEPT ![r] = "getchat"]
                /\ chat' = [chat EXCEPT ![r].tokenInfo = "verified"]
                /\ UNCHANGED result
           ELSE IF FieldChecks(chat[r].event.body) # NoResult
           THEN ChatReturn(r, FieldChecks(chat[r].event.body))
           ELSE \E email \in Senders :
                  /\ pc' = [pc EXCEPT ![r] = "check"]
                  /\ chat' = [chat EXCEPT ![r].tokenInfo = "verified",
                                          ![r].email = email]
                  /\ UNCHANGED result
  /\ UNCHANGED << msgs, meta, now, locals, effects, chatSends, lastSpeaker >>

\* return await getNews(debug) / return chatResponse of getChatLog(debug):
\* neither touches the messages or the metadata.
ReadRoute(r) ==
  /\ pc[r] \in {"news", "getchat"}
  /\ \/ ChatReturn(r, [statusCode |-> 200, body |-> pc[r]])
     \/ ChatThrow(r, StoreError)
  /\ UNCHANGED << msgs, meta, now, locals, effects, chatSends, lastSpeaker >>

\* The answers read from the standard input.
StdinAnswers == {"y", "YES", "N", ""}

\* String.prototype.toLowerCase on the answers.
toLowerCase(s) ==
  CASE s = "YES" -> "yes"
    [] s = "N" -> "n"
    [] OTHER -> s

\* checkInitChat: initializeChatSystem reads the metadata; when there is
\* some it asks on the standard input whether to overwrite it, and returns
\* without a write unless the answer is yes.
InitChatRead(r) ==
  /\ pc[r] = "init"
  /\ \/ \E answer \in StdinAnswers :
          IF getChatMetadata # NoItem /\ toLowerCase(answer) \notin {"y", "yes"}
          THEN ChatReturn(r, [statusCode |-> 200,
                              message |-> "Chat system initialized successfully"])
          ELSE IF createChatMetadata(JsParticipants(llmParticipants)) = Thrown
          THEN ChatReturn(r, ProcessExit)
          ELSE /\ pc' = [pc EXCEPT ![r] = "initialize"]
               /\ UNCHANGED << chat, result >>
     \/ ChatReturn(r, ProcessExit)
  /\ UNCHANGED << msgs, meta, now, locals, effects, chatSends, lastSpeaker >>

\* await initializeChatMetadata(llmParticipants): the metadata item is put.
InitChatWrite(r) ==
  /\ pc[r] = "initialize"
  /\ \/ /\ meta' = RawMetadata(createChatMetadata(JsParticipants(llmParticipants)))
        /\ ChatReturn(r, [statusCode |-> 200,
                          message |-> "Chat system initialized successfully"])
     \/ /\ ChatReturn(r, ProcessExit)
        /\ UNCHANGED meta
  /\ UNCHANGED << msgs, now, locals, effects, chatSends, lastSpeaker >>

RouteNext ==
  \E r \in Requests :
    \/ HandlerEntry(r)
    \/ VerifyToken(r)
    \/ ReadRoute(r)
    \/ InitChatRead(r)
    \/ InitChatWrite(r)
    \/ CheckRateLimit(r)
    \/ StoreUserMessage(r)
    \/ \E p \in Personalities : GeneratePersonaResponse(r, p)
    \/ \E p \in Personalities : StorePersonaResponse(r, p)
    \/ RespondOk(r)

RouteSpec == ChatInit /\ [][RouteNext]_vars

\* The request that takes the step.
Steps(r) == pc'[r] # pc[r] \/ chat'[r] # chat[r]

\* C40: in the handler that serves /init-chat, a step that writes to the
\* store, to the messages or to the metadata, is taken only by a request
\* whose bearer token has been verified.
C40_WritesOnlyAfterTokenVerified ==
  [][(msgs' # msgs \/ meta' # meta) =>
       \E r \in Requests : Steps(r) /\ TokenVerified(r)]_vars

\* The metadata is in the store and no request had its token verified: the
\* requests that ran are /init-chat requests answered 200.
C40_Witness ==
  /\ meta # NoItem
  /\ \E r \in Requests :
       /\ pc[r] = "done"
       /\ result[r] = [statusCode |-> 200,
                       message |-> "Chat system initialized successfully"]
  /\ \A r \in Requests : pc[r] \in {"idle", "done"} /\ result[r].statusCode \in {0, 200}

====
